---- MODULE Spec2Model ----
(***************************************************************************)
(* Model of the sandbox worker (src/src/worker.py).                        *)
(*                                                                         *)
(*   Spec        one SharedRingBuffer: write / read on a shared slab       *)
(*   HeaderSpec  the same calls on any header the slab may hold            *)
(*   PolicySpec  the embedded policy evaluator and the four guarded hooks  *)
(*   ExecSpec    the frame loop of main()                                  *)
(*   OutSpec     ShmOut.write on ring B with the host consuming            *)
(*   CacheSpec   load_active_policy with the mtime cache                   *)
(***************************************************************************)
EXTENDS Integers, Sequences, FiniteSets, TLC

VARIABLES
    head,      \* ring header word 0: consumer cursor
    tail,      \* ring header word 1: producer cursor
    cap,       \* ring header word 2: capacity of the data area
    buf,       \* the data area, offset -> byte
    pending,   \* history: payloads of the frames enqueued and not yet dequeued
    acked,     \* history: payloads of the writes that returned non-zero, minus
               \* one per read that returned a payload
    rop,       \* the last ring call: operation, argument, result
    policy,    \* content of the policy document at POLICY_PATH
    precompile,\* POLICY_PRECOMPILE_ENABLED
    probe,     \* the guarded call the executed code is about to make
    call,      \* the last guarded call: operation, verdict, outcome
    inbox,     \* frames the host has put on ring A (bun2py), not yet read
    sock,      \* the control stream: "open", "broken" (peer gone), "closed"
    events,    \* the state events sent on the control stream, in order
    global_context, \* the dict every frame is evaluated in, name -> value
    worker,    \* main(): position in the loop, sys.stdout, frames handled
    prod,      \* a write() call in progress: its locals and its position
    cons,      \* a read() call in progress: its locals and its position
    out,       \* a ShmOut.write() call: its locals, position and result
    POLICY_CACHE,  \* the memoized ruleset and the mtime stored with it
    load       \* a load_active_policy() call: its locals and its position

vars == <<head, tail, cap, buf, pending, acked, rop, policy, precompile, probe,
          call, inbox, sock, events, global_context, worker, prod, cons,
          out, POLICY_CACHE, load>>

ringVars == <<head, tail, cap, buf, pending, acked, rop, prod, cons, out>>
concVars == <<prod, cons, out>>
policyVars == <<policy, precompile, probe, call, POLICY_CACHE, load>>
execVars == <<inbox, sock, events, global_context, worker>>

-----------------------------------------------------------------------------
(* Bounds of the model.                                                    *)

MaxCap == 11
MaxLen == 2

RingCaps == {MaxCap - 1, MaxCap}
PayloadBytes == {1, 2}
Payloads == UNION {[1..n -> PayloadBytes] : n \in 0..MaxLen}

Min(a, b) == IF a < b THEN a ELSE b

-----------------------------------------------------------------------------
(* SharedRingBuffer                                                        *)

\* struct.pack("<I", n): four bytes, little-endian
PackU32(n) ==
    << n % 256, (n \div 256) % 256, (n \div 65536) % 256, (n \div 16777216) % 256 >>

\* struct.unpack("<I", b)[0]
UnpackU32(b) == b[1] + 256 * b[2] + 65536 * b[3] + 16777216 * b[4]

\* size = (tail - head + cap) % cap
UsedBytes(h, t, c) == (t - h + c) % c

AvailableFull(size, c) == c - size

\* available = cap - size - 1
Available(size, c) == c - size - 1

WriteFitsNoPrefix(available, data_len) == ~(available < data_len)

\* the negation of the early return "if available < 4 + data_len: return 0"
WriteFits(available, data_len) == ~(available < 4 + data_len)

\* buf[lo : lo + Len(bytes)] = bytes
StoreSpan(b, lo, bytes) ==
    [i \in DOMAIN b |->
        IF i >= lo /\ i < lo + Len(bytes) THEN bytes[i - lo + 1] ELSE b[i]]

WriteRawNoWrap(b, bytes_data, start_offset, c) ==
    LET first_chunk == Min(Len(bytes_data), c - start_offset)
    IN  StoreSpan(b, start_offset, SubSeq(bytes_data, 1, first_chunk))

\* _write_raw: at most two contiguous spans, the second from offset 0
WriteRaw(b, bytes_data, start_offset, c) ==
    LET bytes_len == Len(bytes_data)
        first_chunk == Min(bytes_len, c - start_offset)
        b1 == StoreSpan(b, start_offset, SubSeq(bytes_data, 1, first_chunk))
    IN  IF first_chunk < bytes_len
        THEN StoreSpan(b1, 0, SubSeq(bytes_data, first_chunk + 1, bytes_len))
        ELSE b1

\* buf[lo : lo + n] as a byte string
LoadSpan(b, lo, n) == [k \in 1..n |-> b[lo + k - 1]]

\* _read_raw
ReadRaw(b, length, start_offset, c) ==
    LET first_chunk == Min(length, c - start_offset)
        chunk1 == LoadSpan(b, start_offset, first_chunk)
    IN  IF first_chunk < length
        THEN chunk1 \o LoadSpan(b, 0, length - first_chunk)
        ELSE chunk1

\* write(data): the return value and the header and data area it leaves
WriteResult(h, t, c, b, data) ==
    LET data_len == Len(data)
        size == UsedBytes(h, t, c)
        available == Available(size, c)
    IN  IF ~WriteFits(available, data_len)
        THEN [ret |-> 0, wrote |-> FALSE, tail |-> t, buf |-> b]
        ELSE LET b1 == WriteRaw(b, PackU32(data_len), t, c)
                 t1 == (t + 4) % c
                 b2 == WriteRaw(b1, data, t1, c)
                 t2 == (t1 + data_len) % c
             IN  [ret |-> data_len, wrote |-> TRUE, tail |-> t2, buf |-> b2]

HeadAfterPrefixSkipped(h, c) == h

\* head = (head + 4) % cap
HeadAfterPrefix(h, c) == (h + 4) % c

ReadResultConsumesPrefix(h, t, c, b) ==
    LET none == [some |-> FALSE, payload |-> <<>>, head |-> h]
        size == UsedBytes(h, t, c)
    IN  IF h = t THEN none
        ELSE IF size < 4 THEN none
        ELSE LET msg_len == UnpackU32(ReadRaw(b, 4, h, c))
                 h1 == HeadAfterPrefix(h, c)
             IN  IF size < 4 + msg_len THEN [none EXCEPT !.head = h1]
                 ELSE LET payload == ReadRaw(b, msg_len, h1, c)
                      IN  [some |-> TRUE, payload |-> payload,
                           head |-> (h1 + msg_len) % c]

\* read(): None (some = FALSE) or the payload, and the head it leaves
ReadResult(h, t, c, b) ==
    LET none == [some |-> FALSE, payload |-> <<>>, head |-> h]
        size == UsedBytes(h, t, c)
    IN  IF h = t THEN none
        ELSE IF size < 4 THEN none
        ELSE LET msg_len == UnpackU32(ReadRaw(b, 4, h, c))
             IN  IF size < 4 + msg_len THEN none
                 ELSE LET h1 == HeadAfterPrefix(h, c)
                          payload == ReadRaw(b, msg_len, h1, c)
                      IN  [some |-> TRUE, payload |-> payload,
                           head |-> (h1 + msg_len) % c]

NoRingOp == [op |-> "none", data |-> <<>>, ret |-> 0, some |-> FALSE,
             payload |-> <<>>, at |-> 0, free |-> 0, queued |-> 0,
             expected |-> <<>>, nonzero |-> 0, ackedHead |-> <<>>,
             raised |-> ""]

\* the call ends in the exception of `% cap` with a capacity word of 0;
\* nothing has been stored by then
ModuloRaises(op, data) ==
    /\ rop' = [NoRingOp EXCEPT !.op = op, !.data = data,
                               !.raised = "ZeroDivisionError"]
    /\ UNCHANGED <<head, tail, cap, buf, pending, acked>>

\* the frames a ring holds, as the bytes they occupy
FrameBytes(q) ==
    LET RECURSIVE Sum(_)
        Sum(k) == IF k = 0 THEN 0 ELSE Sum(k - 1) + 4 + Len(q[k])
    IN  Sum(Len(q))

\* the policy side is not exercised by the ring specification
\* no load_active_policy call is followed step by step
CacheIdle ==
    /\ POLICY_CACHE = [mtime_ns |-> <<>>, policy |-> <<>>]
    /\ load = [pc |-> "none"]

PolicyIdle ==
    /\ policy = [state |-> "missing"]
    /\ precompile = FALSE
    /\ probe = [op |-> "none"]
    /\ call = [op |-> "none"]
    /\ CacheIdle

\* no call is followed access by access
ConcIdle ==
    prod = [pc |-> "none"] /\ cons = [pc |-> "none"] /\ out = [pc |-> "none"]

\* the executor is not part of the run
ExecIdle ==
    /\ inbox = <<>> /\ sock = "closed" /\ events = <<>>
    /\ global_context = <<>> /\ worker = [pc |-> "none"]

Init ==
    /\ cap \in RingCaps
    /\ head = 0
    /\ tail = 0
    /\ buf = [i \in 0..(cap - 1) |-> 0]
    /\ pending = <<>>
    /\ acked = <<>>
    /\ rop = NoRingOp
    /\ ConcIdle
    /\ PolicyIdle
    /\ ExecIdle

\* one complete write(data) call; a frame is enqueued exactly when the
\* early return is not taken (r.wrote)
Write(data) ==
    IF cap = 0 THEN ModuloRaises("write", data)
    ELSE
    LET r == WriteResult(head, tail, cap, buf, data)
        free == Available(UsedBytes(head, tail, cap), cap)
    IN  /\ tail' = r.tail
        /\ buf' = r.buf
        /\ pending' = IF r.wrote THEN Append(pending, data) ELSE pending
        /\ acked' = IF r.ret # 0 THEN Append(acked, data) ELSE acked
        /\ rop' = [NoRingOp EXCEPT !.op = "write", !.data = data, !.ret = r.ret,
                                   !.at = tail, !.free = free,
                                   !.queued = Len(pending)]
        /\ UNCHANGED <<head, cap>>

\* one complete read() call
Read ==
    IF head # tail /\ cap = 0 THEN ModuloRaises("read", <<>>)
    ELSE
    LET r == ReadResult(head, tail, cap, buf)
    IN  /\ head' = r.head
        /\ pending' = IF r.some /\ pending # <<>> THEN Tail(pending) ELSE pending
        /\ acked' = IF r.some /\ acked # <<>> THEN Tail(acked) ELSE acked
        /\ rop' = [NoRingOp EXCEPT !.op = "read", !.some = r.some,
                                   !.payload = r.payload, !.at = head,
                                   !.free = IF cap = 0 THEN 0
                                            ELSE Available(UsedBytes(head, tail, cap), cap),
                                   !.queued = Len(pending),
                                   !.expected = IF pending # <<>> THEN Head(pending)
                                                ELSE <<>>,
                                   !.nonzero = Len(acked),
                                   !.ackedHead = IF acked # <<>> THEN Head(acked)
                                                 ELSE <<>>]
        /\ UNCHANGED <<tail, cap, buf>>

Next ==
    \/ \E data \in Payloads :
           Write(data) /\ UNCHANGED <<concVars, policyVars, execVars>>
    \/ Read /\ UNCHANGED <<concVars, policyVars, execVars>>

Spec == Init /\ [][Next]_vars

\* The ring as a process finds it when it attaches: the header and the data
\* area hold whatever the creator of the slab left there - the zero-filled
\* header of a slab not yet set up, or any capacity with both cursors inside
\* the data area and any bytes in it.
HeaderCaps == {6, 7}
AreaBytes == {0, 1}

HeaderInit ==
    /\ \/ cap = 0 /\ head = 0 /\ tail = 0 /\ buf = <<>>
       \/ /\ cap \in HeaderCaps
          /\ head \in 0..(cap - 1)
          /\ tail \in 0..(cap - 1)
          /\ buf \in [0..(cap - 1) -> AreaBytes]
    /\ pending = <<>>
    /\ acked = <<>>
    /\ rop = NoRingOp
    /\ ConcIdle
    /\ PolicyIdle
    /\ ExecIdle

HeaderSpec == HeaderInit /\ [][Next]_vars

-----------------------------------------------------------------------------
(* One producer and one consumer on the same ring, access by access        *)
(*                                                                         *)
(* Each process runs write() or read() as in the source, one access to the *)
(* shared slab per step: a header word loaded or stored, a data byte       *)
(* loaded or stored.  Accesses take effect in program order.               *)

ConcCap == 11
ConcPayloads == {<<1>>, <<2>>, <<2, 1>>}

\* where byte j (from 0) of a _write_raw / _read_raw at start_offset lies:
\* in the first chunk up to the end of the data area, else from offset 0
RawOffset(j, start_offset, c) ==
    LET first_chunk == c - start_offset
    IN  IF j < first_chunk THEN start_offset + j ELSE j - first_chunk

WriteOrderTailFirst == <<"tail", "len_bytes", "data">>

\* the stores of write() in program order
WriteOrder == <<"len_bytes", "data", "tail">>

ReadOrderHeadFirst == <<"len_bytes", "head", "payload">>

\* the accesses of read() after the header, in program order
ReadOrder == <<"len_bytes", "payload", "head">>

\* the number of accesses a phase makes
PhaseLen(phase, n) ==
    IF phase = "len_bytes" THEN 4
    ELSE IF phase \in {"data", "payload"} THEN n
    ELSE 1

\* the first phase from k on that makes an access, Len(order) + 1 if none
RECURSIVE FromPhase(_, _, _)
FromPhase(order, k, n) ==
    IF k > Len(order) THEN k
    ELSE IF PhaseLen(order[k], n) > 0 THEN k
    ELSE FromPhase(order, k + 1, n)

ProducerIdle == [pc |-> "idle", data |-> <<>>, h |-> 0, t |-> 0, c |-> 0,
                 k |-> 0, i |-> 0, ret |-> 0, at |-> 0]
ConsumerIdle == [pc |-> "idle", h |-> 0, t |-> 0, c |-> 0, k |-> 0, i |-> 0,
                 len_bytes |-> <<>>, msg_len |-> 0, payload |-> <<>>,
                 some |-> FALSE, expected |-> <<>>, queued |-> 0]

ConcInit ==
    /\ cap = ConcCap
    /\ head = 0
    /\ tail = 0
    /\ buf = [i \in 0..(cap - 1) |-> 0]
    /\ pending = <<>>
    /\ acked = <<>>
    /\ rop = NoRingOp
    /\ prod = ProducerIdle
    /\ cons = ConsumerIdle
    /\ out = [pc |-> "none"]
    /\ PolicyIdle
    /\ ExecIdle

\* write(data) begins: _read_header loads head
ProducerReadHead(data) ==
    /\ prod.pc = "idle"
    /\ prod' = [ProducerIdle EXCEPT !.pc = "tail", !.data = data, !.h = head]
    /\ UNCHANGED <<head, tail, cap, buf, pending, acked, rop, cons, out>>

\* _read_header loads tail
ProducerReadTail ==
    /\ prod.pc = "tail"
    /\ prod' = [prod EXCEPT !.pc = "cap", !.t = tail]
    /\ UNCHANGED <<head, tail, cap, buf, pending, acked, rop, cons, out>>

\* _read_header loads capacity; the room test follows, without an access
ProducerReadCap ==
    /\ prod.pc = "cap"
    /\ LET available == Available(UsedBytes(prod.h, prod.t, cap), cap)
       IN  prod' = IF WriteFits(available, Len(prod.data))
                   THEN [prod EXCEPT !.pc = "run", !.c = cap,
                                     !.k = FromPhase(WriteOrder, 1,
                                                     Len(prod.data)),
                                     !.i = 0]
                   ELSE [prod EXCEPT !.pc = "idle", !.c = cap, !.ret = 0]
    /\ UNCHANGED <<head, tail, cap, buf, pending, acked, rop, cons, out>>

\* the next store of write(): one byte of the prefix, one byte of the
\* payload, or the tail word; the call returns after the last one
ProducerStore ==
    /\ prod.pc = "run"
    /\ LET phase == WriteOrder[prod.k]
           n == Len(prod.data)
           t1 == (prod.t + 4) % prod.c
           t2 == (t1 + n) % prod.c
           last == prod.i + 1 = PhaseLen(phase, n)
           k1 == IF last THEN FromPhase(WriteOrder, prod.k + 1, n) ELSE prod.k
           at == IF phase = "len_bytes" THEN RawOffset(prod.i, prod.t, prod.c)
                 ELSE IF phase = "data" THEN RawOffset(prod.i, t1, prod.c)
                 ELSE 0
       IN  /\ buf' = IF phase = "len_bytes"
                     THEN [buf EXCEPT ![at] = PackU32(n)[prod.i + 1]]
                     ELSE IF phase = "data"
                     THEN [buf EXCEPT ![at] = prod.data[prod.i + 1]]
                     ELSE buf
           /\ tail' = IF phase = "tail" THEN t2 ELSE tail
           /\ pending' = IF phase = "tail" THEN Append(pending, prod.data)
                         ELSE pending
           /\ prod' = IF k1 > Len(WriteOrder)
                      THEN [prod EXCEPT !.pc = "idle", !.ret = n, !.at = at]
                      ELSE [prod EXCEPT !.k = k1, !.at = at,
                                        !.i = IF last THEN 0 ELSE prod.i + 1]
    /\ UNCHANGED <<head, cap, acked, rop, cons, out>>

\* read() begins: _read_header loads head
ConsumerReadHead ==
    /\ cons.pc = "idle"
    /\ cons' = [ConsumerIdle EXCEPT !.pc = "tail", !.h = head]
    /\ UNCHANGED <<head, tail, cap, buf, pending, acked, rop, prod, out>>

\* _read_header loads tail
ConsumerReadTail ==
    /\ cons.pc = "tail"
    /\ cons' = [cons EXCEPT !.pc = "cap", !.t = tail]
    /\ UNCHANGED <<head, tail, cap, buf, pending, acked, rop, prod, out>>

\* _read_header loads capacity; the two early returns follow
ConsumerReadCap ==
    /\ cons.pc = "cap"
    /\ cons' = IF cons.h = cons.t \/ UsedBytes(cons.h, cons.t, cap) < 4
               THEN [cons EXCEPT !.pc = "idle", !.c = cap, !.some = FALSE]
               ELSE [cons EXCEPT !.pc = "run", !.c = cap, !.k = 1, !.i = 0]
    /\ UNCHANGED <<head, tail, cap, buf, pending, acked, rop, prod, out>>

\* the next access of read(): one byte of the prefix (and the size test
\* after its fourth), one byte of the payload, or the store of head
ConsumerAccess ==
    /\ cons.pc = "run"
    /\ LET phase == ReadOrder[cons.k]
           size == UsedBytes(cons.h, cons.t, cons.c)
           h1 == HeadAfterPrefix(cons.h, cons.c)
           len_bytes == IF phase = "len_bytes"
                        THEN Append(cons.len_bytes,
                                    buf[RawOffset(cons.i, cons.h, cons.c)])
                        ELSE cons.len_bytes
           msg_len == IF Len(len_bytes) = 4 THEN UnpackU32(len_bytes) ELSE 0
           payload == IF phase = "payload"
                      THEN Append(cons.payload,
                                  buf[RawOffset(cons.i, h1, cons.c)])
                      ELSE cons.payload
           last == cons.i + 1 = PhaseLen(phase, msg_len)
           k1 == IF last THEN FromPhase(ReadOrder, cons.k + 1, msg_len)
                 ELSE cons.k
           short == phase = "len_bytes" /\ last /\ size < 4 + msg_len
           next == [cons EXCEPT !.len_bytes = len_bytes, !.msg_len = msg_len,
                                !.payload = payload,
                                !.expected = IF phase = "head" /\ pending # <<>>
                                             THEN Head(pending)
                                             ELSE cons.expected,
                                !.queued = IF phase = "head" THEN Len(pending)
                                           ELSE cons.queued]
       IN  /\ head' = IF phase = "head" THEN (h1 + msg_len) % cons.c ELSE head
           /\ pending' = IF phase = "head" /\ pending # <<>> THEN Tail(pending)
                         ELSE pending
           /\ cons' = IF short
                      THEN [next EXCEPT !.pc = "idle", !.some = FALSE]
                      ELSE IF k1 > Len(ReadOrder)
                      THEN [next EXCEPT !.pc = "idle", !.some = TRUE]
                      ELSE [next EXCEPT !.k = k1,
                                        !.i = IF last THEN 0 ELSE cons.i + 1]
    /\ UNCHANGED <<tail, cap, buf, acked, rop, prod, out>>

ConcNext ==
    \/ \E data \in ConcPayloads :
           ProducerReadHead(data) /\ UNCHANGED <<policyVars, execVars>>
    \/ ProducerReadTail /\ UNCHANGED <<policyVars, execVars>>
    \/ ProducerReadCap /\ UNCHANGED <<policyVars, execVars>>
    \/ ProducerStore /\ UNCHANGED <<policyVars, execVars>>
    \/ ConsumerReadHead /\ UNCHANGED <<policyVars, execVars>>
    \/ ConsumerReadTail /\ UNCHANGED <<policyVars, execVars>>
    \/ ConsumerReadCap /\ UNCHANGED <<policyVars, execVars>>
    \/ ConsumerAccess /\ UNCHANGED <<policyVars, execVars>>

ConcSpec == ConcInit /\ [][ConcNext]_vars

-----------------------------------------------------------------------------
(* Strings.  A Python str is a sequence of one-character strings, so that  *)
(* prefix tests, splitting and number parsing are computed, not assumed.   *)

\* None, for a string-valued field that is missing from the JSON document
PyNone == <<"None">>

\* truthiness of an optional string: neither None nor ""
Truthy(s) == s # PyNone /\ s # <<>>

\* s.startswith(p)
StartsWith(s, p) == Len(p) <= Len(s) /\ SubSeq(s, 1, Len(p)) = p

\* ch in s
Contains(s, ch) == \E i \in 1..Len(s) : s[i] = ch

\* s.split(ch)
RECURSIVE SplitOn(_, _)
SplitOn(s, ch) ==
    IF ~Contains(s, ch) THEN <<s>>
    ELSE LET k == CHOOSE i \in 1..Len(s) :
                      s[i] = ch /\ \A j \in 1..(i - 1) : s[j] # ch
         IN  <<SubSeq(s, 1, k - 1)>> \o SplitOn(SubSeq(s, k + 1, Len(s)), ch)

\* s.strip()
RECURSIVE Strip(_)
Strip(s) ==
    IF s = <<>> THEN s
    ELSE IF Head(s) = " " THEN Strip(Tail(s))
    ELSE IF s[Len(s)] = " " THEN Strip(SubSeq(s, 1, Len(s) - 1))
    ELSE s

Digits == {"0", "1", "2", "3", "4", "5", "6", "7", "8", "9"}

DigitVal == "0" :> 0 @@ "1" :> 1 @@ "2" :> 2 @@ "3" :> 3 @@ "4" :> 4 @@
            "5" :> 5 @@ "6" :> 6 @@ "7" :> 7 @@ "8" :> 8 @@ "9" :> 9

\* the outcome of int(s) that stands for ValueError
ValueError == -1

RECURSIVE DecimalValue(_)
DecimalValue(s) ==
    IF s = <<>> THEN 0
    ELSE 10 * DecimalValue(SubSeq(s, 1, Len(s) - 1)) + DigitVal[s[Len(s)]]

\* int(s): surrounding blanks are ignored, then one or more decimal digits
ParseInt(s) ==
    LET t == Strip(s)
    IN  IF t = <<>> \/ \E i \in 1..Len(t) : t[i] \notin Digits
        THEN ValueError
        ELSE DecimalValue(t)

Range(f) == {f[x] : x \in DOMAIN f}

-----------------------------------------------------------------------------
(* Policy evaluator                                                        *)

Absent == "absent"

\* rule.get("action", "allow")
ActionOf(rule) == IF rule.action = Absent THEN "allow" ELSE rule.action

ResolveActionWarnFirst(actions, fallback) ==
    IF "warn" \in Range(actions) THEN "warn"
    ELSE IF "deny" \in Range(actions) THEN "deny"
    ELSE IF "allow" \in Range(actions) THEN "allow"
    ELSE fallback

ResolveActionAllowFirst(actions, fallback) ==
    IF "deny" \in Range(actions) THEN "deny"
    ELSE IF "allow" \in Range(actions) THEN "allow"
    ELSE IF "warn" \in Range(actions) THEN "warn"
    ELSE fallback

\* resolve_action
ResolveAction(actions, fallback) ==
    IF "deny" \in Range(actions) THEN "deny"
    ELSE IF "warn" \in Range(actions) THEN "warn"
    ELSE IF "allow" \in Range(actions) THEN "allow"
    ELSE fallback

FallbackAlwaysAllow(pol, section) == "allow"

\* policy.get("defaults", {}).get(section, "allow")
Fallback(pol, section) ==
    IF pol.defaults[section] = Absent THEN "allow" ELSE pol.defaults[section]

\* one pass over a rule list: hit[k] tells whether the loop body appends for
\* the k-th rule; the result is the indices appended, in loop order
MatchedIdx(hit) ==
    LET F[k \in 0..Len(hit)] ==
            IF k = 0 THEN <<>>
            ELSE IF hit[k] THEN Append(F[k - 1], k) ELSE F[k - 1]
    IN  F[Len(hit)]

-----------------------------------------------------------------------------
(* FS section                                                              *)

FsRuleHitExactPath(rule_path, perms, path, perm) ==
    Truthy(rule_path) /\ path = rule_path /\ perm \in perms

\* the test of one FS rule, the same on the raw and the precompiled path
FsRuleHit(rule_path, perms, path, perm) ==
    Truthy(rule_path) /\ StartsWith(path, rule_path) /\ perm \in perms

\* precompile_policy, FS part: compiled["fs_rules"]; src remembers the rule
\* an entry was compiled from and is not read by the matcher
CompileFs(fs_rules) ==
    [i \in 1..Len(fs_rules) |->
        [action |-> ActionOf(fs_rules[i]), path |-> fs_rules[i].path,
         perms_set |-> Range(fs_rules[i].perms), src |-> i]]

\* match_fs_action for a loaded ruleset: the rules whose action is appended
MatchFsRules(pol, path, perm) ==
    IF pol.compiled.has_fs
    THEN LET Hit(rule) == FsRuleHit(rule.path, rule.perms_set, path, perm)
             idx == MatchedIdx(
                        [i \in 1..Len(pol.compiled.fs_rules) |-> Hit(pol.compiled.fs_rules[i])])
         IN  [k \in 1..Len(idx) |->
                 [src |-> pol.compiled.fs_rules[idx[k]].src,
                  action |-> pol.compiled.fs_rules[idx[k]].action]]
    ELSE LET Hit(rule) == FsRuleHit(rule.path, Range(rule.perms), path, perm)
             idx == MatchedIdx(
                        [i \in 1..Len(pol.doc.fs) |-> Hit(pol.doc.fs[i])])
         IN  [k \in 1..Len(idx) |->
                 [src |-> idx[k], action |-> ActionOf(pol.doc.fs[idx[k]])]]

ActionsOf(hits) == [k \in 1..Len(hits) |-> hits[k].action]
SourcesOf(hits) == {hits[k].src : k \in 1..Len(hits)}

\* what a matcher hands back: the verdict, and the rules that contributed
NoRulesetDenies == [verdict |-> "deny", hits |-> <<>>, evaluated |-> FALSE]

NoRuleset == [verdict |-> "allow", hits |-> <<>>, evaluated |-> FALSE]

\* match_fs_action
MatchFsAction(pol, path, perm) ==
    IF ~pol.ok THEN NoRuleset
    ELSE LET hits == MatchFsRules(pol, path, perm)
         IN  [verdict |-> ResolveAction(ActionsOf(hits), Fallback(pol.doc, "fs")),
              hits |-> hits, evaluated |-> TRUE]

ModeToPermWriteOnly(mode) ==
    IF Contains(mode, "w") THEN "write_file" ELSE "read_file"

\* mode_to_perm
ModeToPerm(mode) ==
    IF \E flag \in {"w", "a", "+", "x"} : Contains(mode, flag)
    THEN "write_file" ELSE "read_file"

-----------------------------------------------------------------------------
(* NET section                                                             *)

\* a dotted quad: exactly four decimal fields, each at most 255
ParseIPv4(s) ==
    LET parts == SplitOn(s, ".")
        Field(t) == IF t = <<>> \/ \E i \in 1..Len(t) : t[i] \notin Digits
                    THEN ValueError ELSE DecimalValue(t)
    IN  IF Len(parts) = 4
           /\ \A k \in 1..4 : Field(parts[k]) # ValueError /\ Field(parts[k]) <= 255
        THEN [ok |-> TRUE, octets |-> [k \in 1..4 |-> Field(parts[k])]]
        ELSE [ok |-> FALSE, octets |-> <<0, 0, 0, 0>>]

IpAddressResolving(ip) ==
    IF ParseIPv4(ip).ok THEN ParseIPv4(ip)
    ELSE [ok |-> TRUE, octets |-> <<10, 0, 0, 5>>]

\* ipaddress.ip_address(ip); ok = FALSE stands for ValueError
IpAddress(ip) == ParseIPv4(ip)

\* the bits of octet k (1..4) that a prefix of length n covers
PrefixBits(n, k) ==
    IF n >= 8 * k THEN 8 ELSE IF n <= 8 * (k - 1) THEN 0 ELSE n - 8 * (k - 1)

\* address & netmask, octet by octet
MaskOctets(octets, n) ==
    [k \in 1..4 |->
        (octets[k] \div 2 ^ (8 - PrefixBits(n, k))) * 2 ^ (8 - PrefixBits(n, k))]

\* ipaddress.ip_network(cidr, strict=False) for "a.b.c.d" and "a.b.c.d/n":
\* the host bits are masked off; ok = FALSE stands for ValueError
IpNetwork(cidr) ==
    LET parts == SplitOn(cidr, "/")
        addr == ParseIPv4(parts[1])
        plen == IF Len(parts) = 1 THEN 32 ELSE ParseInt(parts[2])
    IN  IF Len(parts) <= 2 /\ addr.ok /\ plen # ValueError /\ plen <= 32
        THEN [ok |-> TRUE, address |-> MaskOctets(addr.octets, plen),
              prefixlen |-> plen]
        ELSE [ok |-> FALSE, address |-> <<0, 0, 0, 0>>, prefixlen |-> 0]

\* address in network
InNetwork(octets, network) ==
    MaskOctets(octets, network.prefixlen) = network.address

\* the parts of a ports value: split on ",", stripped, empty ones dropped
PortParts(ports_value) ==
    LET raw == SplitOn(ports_value, ",")
        F[k \in 0..Len(raw)] ==
            IF k = 0 THEN <<>>
            ELSE IF Strip(raw[k]) # <<>> THEN Append(F[k - 1], Strip(raw[k]))
            ELSE F[k - 1]
    IN  F[Len(raw)]

\* one part as a range: (lo, hi), or ok = FALSE for the ValueError that
\* unpacking the split or int() raises
PartRange(part) ==
    LET bad == [ok |-> FALSE, lo |-> 0, hi |-> 0]
    IN  IF Contains(part, "-")
        THEN LET se == SplitOn(part, "-")
             IN  IF Len(se) # 2 THEN bad
                 ELSE IF ParseInt(se[1]) = ValueError \/ ParseInt(se[2]) = ValueError
                      THEN bad
                 ELSE [ok |-> TRUE, lo |-> ParseInt(se[1]), hi |-> ParseInt(se[2])]
        ELSE IF ParseInt(part) = ValueError THEN bad
             ELSE [ok |-> TRUE, lo |-> ParseInt(part), hi |-> ParseInt(part)]

PortMatchesStopAtBad(ports_value, port) ==
    LET parts == PortParts(ports_value)
        Loop[k \in 1..(Len(parts) + 1)] ==
            IF k > Len(parts) THEN FALSE
            ELSE LET r == PartRange(parts[k])
                 IN  IF ~r.ok THEN FALSE
                     ELSE IF r.lo <= port /\ port <= r.hi THEN TRUE
                     ELSE Loop[k + 1]
    IN  Loop[1]

\* port_matches: the first part that holds the port returns True, a part
\* that raises ValueError is skipped
PortMatches(ports_value, port) ==
    LET parts == PortParts(ports_value)
        Loop[k \in 1..(Len(parts) + 1)] ==
            IF k > Len(parts) THEN FALSE
            ELSE LET r == PartRange(parts[k])
                 IN  IF r.ok /\ r.lo <= port /\ port <= r.hi THEN TRUE
                     ELSE Loop[k + 1]
    IN  Loop[1]

\* parse_port_ranges
ParsePortRanges(ports_value) ==
    LET parts == PortParts(ports_value)
        F[k \in 0..Len(parts)] ==
            IF k = 0 THEN <<>>
            ELSE IF PartRange(parts[k]).ok
                 THEN Append(F[k - 1],
                             <<PartRange(parts[k]).lo, PartRange(parts[k]).hi>>)
            ELSE F[k - 1]
    IN  F[Len(parts)]

\* port_matches_ranges
PortMatchesRanges(ranges, port) ==
    \E k \in 1..Len(ranges) : ranges[k][1] <= port /\ port <= ranges[k][2]

\* precompile_policy, NET part: rules without a usable cidr are dropped
CompileNet(net_rules) ==
    LET F[k \in 0..Len(net_rules)] ==
            IF k = 0 THEN <<>>
            ELSE IF ~Truthy(net_rules[k].cidr) THEN F[k - 1]
            ELSE IF ~IpNetwork(net_rules[k].cidr).ok THEN F[k - 1]
            ELSE Append(F[k - 1],
                    [action |-> ActionOf(net_rules[k]),
                     proto |-> net_rules[k].proto,
                     network |-> IpNetwork(net_rules[k].cidr),
                     port_ranges |-> ParsePortRanges(net_rules[k].ports),
                     src |-> k])
    IN  F[Len(net_rules)]

\* match_net_action for a loaded ruleset: the rules whose action is appended
MatchNetRules(pol, ip, port, proto) ==
    IF pol.compiled.has_net
    THEN LET address == IpAddress(ip)
             Hit(rule) == /\ rule.proto = proto
                          /\ InNetwork(address.octets, rule.network)
                          /\ PortMatchesRanges(rule.port_ranges, port)
             idx == IF address.ok THEN MatchedIdx(
                        [i \in 1..Len(pol.compiled.net_rules) |-> Hit(pol.compiled.net_rules[i])])
                    ELSE <<>>
         IN  [k \in 1..Len(idx) |->
                 [src |-> pol.compiled.net_rules[idx[k]].src,
                  action |-> pol.compiled.net_rules[idx[k]].action]]
    ELSE LET Hit(rule) == /\ rule.proto = proto
                          /\ Truthy(rule.cidr)
                          /\ IpNetwork(rule.cidr).ok
                          /\ IpAddress(ip).ok
                          /\ InNetwork(IpAddress(ip).octets, IpNetwork(rule.cidr))
                          /\ PortMatches(rule.ports, port)
             idx == MatchedIdx(
                        [i \in 1..Len(pol.doc.net) |-> Hit(pol.doc.net[i])])
         IN  [k \in 1..Len(idx) |->
                 [src |-> idx[k], action |-> ActionOf(pol.doc.net[idx[k]])]]

\* match_net_action
MatchNetAction(pol, ip, port, proto) ==
    IF ~pol.ok THEN NoRuleset
    ELSE LET hits == MatchNetRules(pol, ip, port, proto)
         IN  [verdict |-> ResolveAction(ActionsOf(hits), Fallback(pol.doc, "net")),
              hits |-> hits, evaluated |-> TRUE]

-----------------------------------------------------------------------------
(* EXEC section                                                            *)

\* precompile_policy, EXEC part: path -> the actions of the rules naming it,
\* in rule order; rules without a path are dropped
CompileExec(exec_rules) ==
    [p \in {exec_rules[i].path : i \in {j \in 1..Len(exec_rules) :
                                            Truthy(exec_rules[j].path)}} |->
        LET Hit(rule) == rule.path = p
            idx == MatchedIdx(
                       [i \in 1..Len(exec_rules) |-> Hit(exec_rules[i])])
        IN  [k \in 1..Len(idx) |->
                [src |-> idx[k], action |-> ActionOf(exec_rules[idx[k]])]]]

\* match_exec_action for a loaded ruleset: the rules whose action is taken
MatchExecRules(pol, path) ==
    IF pol.compiled.has_exec
    THEN IF path \in DOMAIN pol.compiled.exec_rules
         THEN pol.compiled.exec_rules[path] ELSE <<>>
    ELSE LET Hit(rule) == rule.path = path
             idx == MatchedIdx(
                        [i \in 1..Len(pol.doc.exec) |-> Hit(pol.doc.exec[i])])
         IN  [k \in 1..Len(idx) |->
                 [src |-> idx[k], action |-> ActionOf(pol.doc.exec[idx[k]])]]

\* match_exec_action
MatchExecAction(pol, path) ==
    IF ~pol.ok THEN NoRuleset
    ELSE LET hits == MatchExecRules(pol, path)
         IN  [verdict |-> ResolveAction(ActionsOf(hits), Fallback(pol.doc, "exec")),
              hits |-> hits, evaluated |-> TRUE]

-----------------------------------------------------------------------------
(* Policy document, load_active_policy                                     *)

NoCompiled == [has_fs |-> FALSE, fs_rules |-> <<>>,
               has_net |-> FALSE, net_rules |-> <<>>,
               has_exec |-> FALSE, exec_rules |-> <<>>]

\* precompile_policy: a section is compiled only when it has rules
PrecompilePolicy(doc) ==
    [has_fs |-> doc.fs # <<>>, fs_rules |-> CompileFs(doc.fs),
     has_net |-> doc.net # <<>>, net_rules |-> CompileNet(doc.net),
     has_exec |-> doc.exec # <<>>, exec_rules |-> CompileExec(doc.exec)]

EmptyDoc == [fs |-> <<>>, net |-> <<>>, exec |-> <<>>,
             defaults |-> [fs |-> Absent, net |-> Absent, exec |-> Absent]]

\* load_active_policy with the mtime cache off: None when the document is
\* missing or does not parse, else the parsed document, precompiled on demand
LoadActivePolicy(file, precompileEnabled) ==
    IF file.state # "ok"
    THEN [ok |-> FALSE, doc |-> EmptyDoc, compiled |-> NoCompiled]
    ELSE [ok |-> TRUE, doc |-> file.doc,
          compiled |-> IF precompileEnabled THEN PrecompilePolicy(file.doc)
                       ELSE NoCompiled]

-----------------------------------------------------------------------------
(* Guarded operations                                                      *)

Cwd == <<"/", "w">>
POLICY_PATH == <<"p">>

\* os.path.abspath: join with the working directory, then collapse empty,
\* "." and ".." components
Abspath(path) ==
    LET full == IF path # <<>> /\ path[1] = "/" THEN path
                ELSE Cwd \o <<"/">> \o path
        segs == SplitOn(full, "/")
        St[k \in 0..Len(segs)] ==
            IF k = 0 THEN <<>>
            ELSE IF segs[k] = <<>> \/ segs[k] = <<".">> THEN St[k - 1]
            ELSE IF segs[k] = <<".", ".">>
                 THEN IF St[k - 1] = <<>> THEN <<>>
                      ELSE SubSeq(St[k - 1], 1, Len(St[k - 1]) - 1)
            ELSE Append(St[k - 1], segs[k])
        stack == St[Len(segs)]
        J[k \in 0..Len(stack)] ==
            IF k = 0 THEN <<>> ELSE J[k - 1] \o <<"/">> \o stack[k]
    IN  IF stack = <<>> THEN <<"/">> ELSE J[Len(stack)]

NoAudit == [kind |-> "none", target |-> <<>>, port |-> 0]

GuardOutcomeProceedOnDeny(action) ==
    [raised |-> IF action = "deny" THEN "PermissionError" ELSE "",
     warned |-> action = "warn",
     invoked |-> TRUE,
     steps |-> IF action = "deny" THEN <<"raise", "call">>
               ELSE IF action = "warn" THEN <<"print", "call">>
               ELSE <<"call">>]

GuardOutcomeAuditAfterCall(action) ==
    [raised |-> IF action = "deny" THEN "PermissionError" ELSE "",
     warned |-> action = "warn",
     invoked |-> action # "deny",
     steps |-> IF action = "deny" THEN <<"raise">>
               ELSE IF action = "warn" THEN <<"call", "print">>
               ELSE <<"call">>]

GuardOutcomeRaiseOnWarn(action) ==
    [raised |-> IF action \in {"deny", "warn"} THEN "PermissionError" ELSE "",
     warned |-> action = "warn",
     invoked |-> action \notin {"deny", "warn"},
     steps |-> IF action = "deny" THEN <<"raise">>
               ELSE IF action = "warn" THEN <<"print", "raise">>
               ELSE <<"call">>]

\* the tail shared by the four guarded functions: raise on deny, print the
\* audit line on warn, then call the original operation; steps lists the
\* effects in the order the statements run
GuardOutcome(action) ==
    [raised |-> IF action = "deny" THEN "PermissionError" ELSE "",
     warned |-> action = "warn",
     invoked |-> action # "deny",
     steps |-> IF action = "deny" THEN <<"raise">>
               ELSE IF action = "warn" THEN <<"print", "call">>
               ELSE <<"call">>]

\* the argument of every PermissionError the guarded functions raise
PolicyDenied ==
    <<"p", "o", "l", "i", "c", "y", " ", "d", "e", "n", "i", "e", "d">>

NoCall == [op |-> "none", target |-> <<>>, port |-> 0, mode |-> <<>>,
           perm |-> "", exempt |-> FALSE, evaluated |-> FALSE, hits |-> <<>>,
           verdict |-> "", raised |-> "", invoked |-> FALSE,
           original |-> "", audit |-> NoAudit, steps |-> <<>>,
           loaded |-> FALSE, message |-> <<>>]

\* the record of a guarded call that went through the evaluator
Guarded(op, original, kind, target, port, mode, perm, m) ==
    LET o == GuardOutcome(m.verdict)
    IN  [NoCall EXCEPT !.op = op, !.target = target, !.port = port,
                       !.loaded = TRUE,
                       !.mode = mode, !.perm = perm,
                       !.evaluated = m.evaluated, !.hits = m.hits,
                       !.verdict = m.verdict, !.raised = o.raised,
                       !.invoked = o.invoked, !.steps = o.steps,
                       !.message = IF o.raised # "" THEN PolicyDenied
                                   ELSE <<>>,
                       !.original = IF o.invoked THEN original ELSE "",
                       !.audit = IF o.warned
                                 THEN [kind |-> kind, target |-> target,
                                       port |-> port]
                                 ELSE NoAudit]

IsPolicyDocumentLiteral(path) == path = POLICY_PATH

\* the test guarded_open makes before anything else
IsPolicyDocument(path) == Abspath(path) = Abspath(POLICY_PATH)

\* the mode guarded_open works with: "r" when the caller passes none
ModeArgument(given) == IF given = PyNone THEN <<"r">> ELSE given

SelfExemptReadsOnly(path, mode) ==
    IsPolicyDocument(path) /\ ModeToPerm(mode) = "read_file"

\* the branch of guarded_open that returns ORIGINAL_OPEN(path, mode): taken
\* on the path alone, before the mode is looked at
SelfExempt(path, mode) == IsPolicyDocument(path)

\* guarded_open(path, mode)
GuardedOpen(path, mode) ==
    /\ call' =
        IF SelfExempt(path, mode)
        THEN [NoCall EXCEPT !.op = "open", !.target = path, !.mode = mode,
                            !.exempt = TRUE, !.invoked = TRUE,
                            !.original = "ORIGINAL_OPEN",
                            !.steps = <<"call">>]
        ELSE LET pol == LoadActivePolicy(policy, precompile)
                 perm == ModeToPerm(mode)
             IN  Guarded("open", "original_open", "fs", path, 0, mode, perm,
                         MatchFsAction(pol, path, perm))
    /\ UNCHANGED <<policy, precompile, probe, POLICY_CACHE, load>>

\* guarded_listdir(path)
GuardedListdir(path) ==
    /\ call' =
        LET pol == LoadActivePolicy(policy, precompile)
        IN  Guarded("listdir", "original_listdir", "fs", path, 0, <<>>,
                    "read_dir", MatchFsAction(pol, path, "read_dir"))
    /\ UNCHANGED <<policy, precompile, probe, POLICY_CACHE, load>>

\* the path guarded_run probes: cmd[0] of a non-empty sequence, else the
\* first blank-separated token of str(cmd)
ExecPath(cmd) ==
    IF cmd.kind = "seq" /\ cmd.argv # <<>> THEN cmd.argv[1]
    ELSE LET text == IF cmd.kind = "seq" THEN <<"[", "]">> ELSE cmd.text
         IN  SplitOn(text, " ")[1]

\* guarded_run(cmd)
GuardedRun(cmd) ==
    /\ call' =
        LET pol == LoadActivePolicy(policy, precompile)
            path == ExecPath(cmd)
        IN  Guarded("run", "original_run", "exec", path, 0, <<>>, "",
                    MatchExecAction(pol, path))
    /\ UNCHANGED <<policy, precompile, probe, POLICY_CACHE, load>>

\* guarded_create_connection((host, port))
GuardedCreateConnection(host, port) ==
    /\ call' =
        LET pol == LoadActivePolicy(policy, precompile)
        IN  Guarded("connect", "original_create_connection", "net tcp", host,
                    port, <<>>, "", MatchNetAction(pol, host, port, "tcp"))
    /\ UNCHANGED <<policy, precompile, probe, POLICY_CACHE, load>>

-----------------------------------------------------------------------------
(* Inputs of the policy model: rulesets and probes                         *)

MaxRules == 2

RuleLists(R) == UNION {[1..n -> R] : n \in 0..MaxRules}

AllPerms == <<"read_file", "write_file", "read_dir">>

FsRules ==
    {[path |-> <<"/">>, perms |-> AllPerms, action |-> a] :
        a \in {"allow", "warn", "deny"}}
    \cup {[path |-> <<"/", "b">>, perms |-> <<"read_file">>, action |-> a] :
        a \in {"warn", "deny"}}
    \cup {[path |-> <<>>, perms |-> AllPerms, action |-> "deny"],
          [path |-> PyNone, perms |-> AllPerms, action |-> "deny"],
          [path |-> <<"/", "a">>, perms |-> <<"write_file">>, action |-> Absent]}

DefaultValues == {Absent, "allow", "warn", "deny"}

FsDocs ==
    {[EmptyDoc EXCEPT !.fs = rs, !.defaults.fs = d] :
        rs \in RuleLists(FsRules), d \in DefaultValues}

Cidr10Slash8 == <<"1", "0", ".", "0", ".", "0", ".", "0", "/", "8">>
Cidr10Dot1Slash16 == <<"1", "0", ".", "1", ".", "0", ".", "0", "/", "1", "6">>
CidrHostBits == <<"1", "0", ".", "0", ".", "0", ".", "9", "/", "8">>
CidrSingle == <<"1", "0", ".", "0", ".", "0", ".", "5">>
CidrBad == <<"x">>

PortsWeb == <<"8", "0", ",", "4", "4", "3", ",", "8", "0", "0", "0", "-", "8", "1", "0", "0">>
PortsBadThen80 == <<"x", ",", "8", "0">>
PortsTripleThen443 == <<"1", "-", "2", "-", "3", ",", " ", "4", "4", "3">>
PortsReversedThen8050 == <<"8", "1", "-", "8", "0", ",", " ", "8", "0", "5", "0", " ">>
Ports80 == <<"8", "0">>

NetRules ==
    {[proto |-> "tcp", cidr |-> Cidr10Slash8, ports |-> PortsWeb, action |-> "deny"],
     [proto |-> "tcp", cidr |-> Cidr10Dot1Slash16, ports |-> PortsWeb, action |-> "deny"],
     [proto |-> "udp", cidr |-> Cidr10Slash8, ports |-> Ports80, action |-> "deny"],
     [proto |-> "tcp", cidr |-> CidrHostBits, ports |-> PortsBadThen80, action |-> "warn"],
     [proto |-> "tcp", cidr |-> Cidr10Slash8, ports |-> PortsTripleThen443, action |-> "allow"],
     [proto |-> "tcp", cidr |-> CidrBad, ports |-> Ports80, action |-> "deny"],
     [proto |-> "tcp", cidr |-> PyNone, ports |-> Ports80, action |-> "deny"],
     [proto |-> "tcp", cidr |-> CidrSingle, ports |-> PortsReversedThen8050, action |-> "warn"]}

NetDocs ==
    {[EmptyDoc EXCEPT !.net = rs, !.defaults.net = d] :
        rs \in RuleLists(NetRules), d \in DefaultValues}

Shell == <<"/", "s", "h">>
Ls == <<"l", "s">>

ExecRules ==
    {[path |-> Shell, action |-> a] : a \in {"allow", "warn", "deny"}}
    \cup {[path |-> Ls, action |-> "deny"],
          [path |-> Ls, action |-> Absent],
          [path |-> <<>>, action |-> "deny"],
          [path |-> PyNone, action |-> "deny"]}

ExecDocs ==
    {[EmptyDoc EXCEPT !.exec = rs, !.defaults.exec = d] :
        rs \in RuleLists(ExecRules), d \in DefaultValues}

Host10 == <<"1", "0", ".", "0", ".", "0", ".", "5">>
Host10Dot1 == <<"1", "0", ".", "1", ".", "2", ".", "3">>
HostName == <<"d", "b">>
HostThreeFields == <<"1", "0", ".", "0", ".", "0">>

ConnectHosts == {Host10, Host10Dot1, HostName, HostThreeFields}
ConnectPorts == {80, 81, 443, 8050}

Commands ==
    {[kind |-> "seq", argv |-> <<Shell, <<"-", "c">>>>, text |-> <<>>],
     [kind |-> "str", argv |-> <<>>, text |-> <<"l", "s", " ", "-", "l">>],
     [kind |-> "str", argv |-> <<>>, text |-> Shell],
     [kind |-> "str", argv |-> <<>>, text |-> <<>>],
     [kind |-> "str", argv |-> <<>>, text |-> <<" ", "l", "s">>],
     [kind |-> "str", argv |-> <<>>, text |-> <<"l", "s", "\t", "-", "l">>]}

PolicyFiles ==
    {[state |-> "missing", doc |-> EmptyDoc],
     [state |-> "invalid", doc |-> EmptyDoc]}
    \cup {[state |-> "ok", doc |-> d] : d \in FsDocs \cup NetDocs \cup ExecDocs}

PolicyDocAbsolute == <<"/", "w", "/", "p">>
OpenPaths == {<<"/", "a">>, <<"/", "b">>, <<"p">>, PolicyDocAbsolute}
OpenModes == {<<"r">>, <<"w">>}
\* further mode strings, each tried on one path; PyNone is a call that
\* passes no mode
MoreModes == {PyNone, <<"r", "b">>, <<"a">>, <<"r", "+">>, <<"x">>,
              <<"w", "b">>, <<"r", "t">>}
\* the write modes besides "w", each tried on the policy document
PolicyDocModes == {<<"a">>, <<"r", "+">>, <<"x">>}
OpenCalls ==
    (OpenPaths \X OpenModes) \cup ({<<"/", "a">>} \X MoreModes)
    \cup ({PolicyDocAbsolute} \X PolicyDocModes)
ListPaths == {<<"/", "a">>, <<"/", "b">>}

RingIdle ==
    /\ cap = 0 /\ head = 0 /\ tail = 0 /\ buf = <<>>
    /\ pending = <<>> /\ acked = <<>> /\ rop = NoRingOp
    /\ ConcIdle

NoCmd == [kind |-> "str", argv |-> <<>>, text |-> <<>>]

\* the calls the executed code makes
Probes ==
    {[op |-> "open", target |-> c[1], mode |-> c[2], port |-> 0, cmd |-> NoCmd] :
        c \in OpenCalls}
    \cup {[op |-> "listdir", target |-> path, mode |-> <<>>, port |-> 0,
           cmd |-> NoCmd] : path \in ListPaths}
    \cup {[op |-> "run", target |-> <<>>, mode |-> <<>>, port |-> 0, cmd |-> cmd] :
        cmd \in Commands}
    \cup {[op |-> "connect", target |-> host, mode |-> <<>>, port |-> port,
           cmd |-> NoCmd] : host \in ConnectHosts, port \in ConnectPorts}

\* the environment a guarded call runs in: any policy document, either
\* setting of POLICY_PRECOMPILE, any call
PolicyInit ==
    /\ RingIdle
    /\ ExecIdle
    /\ policy \in PolicyFiles
    /\ precompile \in BOOLEAN
    /\ probe \in Probes
    /\ call = NoCall
    /\ CacheIdle

\* the executed code has not made its call yet
Calling(op) == probe.op = op /\ call = NoCall

PolicyNext ==
    \/ Calling("open") /\ GuardedOpen(probe.target, ModeArgument(probe.mode))
                       /\ UNCHANGED <<ringVars, execVars>>
    \/ Calling("listdir") /\ GuardedListdir(probe.target)
                          /\ UNCHANGED <<ringVars, execVars>>
    \/ Calling("run") /\ GuardedRun(probe.cmd) /\ UNCHANGED <<ringVars, execVars>>
    \/ Calling("connect") /\ GuardedCreateConnection(probe.target, probe.port)
                          /\ UNCHANGED <<ringVars, execVars>>

PolicySpec == PolicyInit /\ [][PolicyNext]_vars

-----------------------------------------------------------------------------
(* load_active_policy with the mtime cache, step by step                   *)
(*                                                                         *)
(* The policy document is written by the host while the worker loads it:   *)
(* each stat, the read of the document and each store to POLICY_CACHE is   *)
(* a step, and the document may be replaced between any two of them.  The  *)
(* mtime of the document is the number of its replacements so far.         *)

MaxMtime == 3

ExecDenyShell ==
    [EmptyDoc EXCEPT !.exec = <<[action |-> "deny", path |-> Shell]>>]

CacheDocs == {EmptyDoc, ExecDenyShell}

CacheFiles ==
    {[state |-> "missing", doc |-> EmptyDoc],
     [state |-> "invalid", doc |-> EmptyDoc]}
    \cup {[state |-> "ok", doc |-> d] : d \in CacheDocs}

\* os.stat(POLICY_PATH).st_mtime_ns as a one-element sequence; the empty
\* sequence is the FileNotFoundError, and None where an mtime is stored
Stat(file) == IF file.state = "missing" THEN <<>> ELSE <<file.mtime>>

\* None where a ruleset is expected: what LoadActivePolicy gives for a
\* document that is missing or does not parse
NoPolicy == [ok |-> FALSE, doc |-> EmptyDoc, compiled |-> NoCompiled]

LoadIdle == [pc |-> "idle", cache_enabled |-> TRUE, started |-> 0,
             result |-> NoPolicy, hit |-> FALSE, policy |-> NoPolicy,
             read_at |-> 0]

CacheInit ==
    /\ RingIdle
    /\ ExecIdle
    /\ \E f \in CacheFiles :
          policy = [state |-> f.state, doc |-> f.doc, mtime |-> 0]
    /\ precompile \in BOOLEAN
    /\ probe = [op |-> "none"]
    /\ call = [op |-> "none"]
    /\ POLICY_CACHE = [mtime_ns |-> <<>>, policy |-> NoPolicy, parsed_at |-> 0]
    /\ \E enabled \in BOOLEAN : load = [LoadIdle EXCEPT !.cache_enabled = enabled]

\* the host replaces or removes the policy document
PolicyFileModified(f) ==
    /\ policy.mtime < MaxMtime
    /\ [state |-> policy.state, doc |-> policy.doc] # f
    /\ policy' = [state |-> f.state, doc |-> f.doc, mtime |-> policy.mtime + 1]
    /\ UNCHANGED <<precompile, probe, call, POLICY_CACHE, load>>

\* the call up to the open: with the cache on, the stat, the reset of the
\* cache when the document is missing, and the return of the memoized
\* ruleset when the stored mtime is the one just read
LoadActivePolicyStat ==
    /\ load.pc \in {"idle", "done"}
    /\ LET begun == [LoadIdle EXCEPT !.cache_enabled = load.cache_enabled,
                                     !.started = policy.mtime]
           st == Stat(policy)
       IN  IF ~load.cache_enabled
           THEN /\ load' = [begun EXCEPT !.pc = "open"]
                /\ UNCHANGED POLICY_CACHE
           ELSE IF st = <<>>
           THEN /\ POLICY_CACHE' = [POLICY_CACHE EXCEPT !.policy = NoPolicy,
                                                        !.mtime_ns = <<>>]
                /\ load' = [begun EXCEPT !.pc = "done"]
           ELSE IF POLICY_CACHE.policy # NoPolicy /\ POLICY_CACHE.mtime_ns = st
           THEN /\ load' = [begun EXCEPT !.pc = "done", !.hit = TRUE,
                                         !.result = POLICY_CACHE.policy]
                /\ UNCHANGED POLICY_CACHE
           ELSE /\ load' = [begun EXCEPT !.pc = "open"]
                /\ UNCHANGED POLICY_CACHE
    /\ UNCHANGED <<policy, precompile, probe, call>>

\* open, json.load, precompile_policy and the store of the ruleset in the
\* cache; a document that is missing or does not parse ends the call
LoadActivePolicyParse ==
    /\ load.pc = "open"
    /\ LET parsed == LoadActivePolicy(policy, precompile)
       IN  IF ~parsed.ok
           THEN /\ load' = [load EXCEPT !.pc = "done"]
                /\ UNCHANGED POLICY_CACHE
           ELSE IF ~load.cache_enabled
           THEN /\ load' = [load EXCEPT !.pc = "done", !.result = parsed]
                /\ UNCHANGED POLICY_CACHE
           ELSE /\ load' = [load EXCEPT !.pc = "stat", !.policy = parsed,
                                        !.read_at = policy.mtime]
                /\ POLICY_CACHE' = [POLICY_CACHE EXCEPT
                                       !.policy = parsed,
                                       !.parsed_at = policy.mtime]
    /\ UNCHANGED <<policy, precompile, probe, call>>

\* the second stat, whose mtime is stored with the ruleset, and the return
LoadActivePolicyStore ==
    /\ load.pc = "stat"
    /\ LET st == Stat(policy)
       IN  POLICY_CACHE' = [POLICY_CACHE EXCEPT !.mtime_ns = st]
    /\ load' = [load EXCEPT !.pc = "done", !.result = load.policy]
    /\ UNCHANGED <<policy, precompile, probe, call>>

CacheNext ==
    \/ \E f \in CacheFiles :
           PolicyFileModified(f) /\ UNCHANGED <<ringVars, execVars>>
    \/ LoadActivePolicyStat /\ UNCHANGED <<ringVars, execVars>>
    \/ LoadActivePolicyParse /\ UNCHANGED <<ringVars, execVars>>
    \/ LoadActivePolicyStore /\ UNCHANGED <<ringVars, execVars>>

CacheSpec == CacheInit /\ [][CacheNext]_vars

-----------------------------------------------------------------------------
(* The executor loop of main()                                             *)

MaxFrames == 3

Unbound == "unbound"
NoBind == [name |-> "", value |-> ""]

\* global_context when the loop starts: only __name__ is bound
\* (__builtins__, set by install_policy_hooks, is left out)
Names == {"x", "y", "__name__"}
InitialContext ==
    [n \in Names |-> IF n = "__name__" THEN "__main__" ELSE Unbound]

\* A frame is the bytes of one snippet, described by what running it does:
\*   utf8   - the bytes decode as UTF-8
\*   form   - "expr": eval compiles it; "stmt": eval raises SyntaxError at
\*            compile time and exec compiles it; "invalid": neither does
\*   bind   - the assignment the body makes first, if any
\*   read   - the name the body then looks up, if any
\*   raises - what the body raises last, "" when it runs to its end
\*   envelope - the message type of the payload when it is laid out as
\*            [type][request id][body], "none" for bare source text; the
\*            loop never looks at it
Snippet(form, bind, read, raises) ==
    [utf8 |-> TRUE, form |-> form, bind |-> bind, read |-> read,
     raises |-> raises, envelope |-> "none"]

\* x = 1
BindX == Snippet("stmt", [name |-> "x", value |-> "1"], "", "")
\* x = 2; raise ValueError()
RebindXThenFail ==
    Snippet("stmt", [name |-> "x", value |-> "2"], "", "ValueError")
\* y = 1, then a loop that the host interrupts
BindYThenInterrupted ==
    Snippet("stmt", [name |-> "y", value |-> "1"], "", "KeyboardInterrupt")
\* x
ReadX == Snippet("expr", NoBind, "x", "")
\* y
ReadY == Snippet("expr", NoBind, "y", "")
\* __name__
ReadName == Snippet("expr", NoBind, "__name__", "")
\* open("/a", "w") under a ruleset that denies it
DeniedOpen == Snippet("expr", NoBind, "", "PermissionError")
\* raise SystemExit
Exit == Snippet("stmt", NoBind, "", "SystemExit")
\* 1 +
BadSyntax == Snippet("invalid", NoBind, "", "SyntaxError")
\* compile("1 +", "s", "eval"): an expression that raises SyntaxError when run
RaisesSyntaxError == Snippet("expr", NoBind, "", "SyntaxError")
\* b"\xff"
NotUtf8 == [Snippet("invalid", NoBind, "", "") EXCEPT !.utf8 = FALSE]

\* b"\x10\x01\x00\x00\x00": an ALLOW reply with request id 1; as source
\* text it does not compile
AllowReply ==
    [Snippet("invalid", NoBind, "", "SyntaxError") EXCEPT !.envelope = "ALLOW"]
\* b"#AAAA\nx = 7": type byte 0x23, which is no message type, request id
\* 0x41414141, body "\nx = 7"; as source text a comment line and x = 7
UnknownTypeBindsX ==
    [Snippet("stmt", [name |-> "x", value |-> "7"], "", "")
        EXCEPT !.envelope = "unknown"]

Frames == {BindX, RebindXThenFail, BindYThenInterrupted, ReadX, ReadY,
           ReadName, DeniedOpen, Exit, BadSyntax, RaisesSyntaxError, NotUtf8,
           AllowReply, UnknownTypeBindsX}

FrameSeqs == UNION {[1..n -> Frames] : n \in 1..MaxFrames}

RunBodyDiscardsOnFailure(frame, ctx) ==
    LET bound == IF frame.bind = NoBind THEN ctx
                 ELSE [ctx EXCEPT ![frame.bind.name] = frame.bind.value]
        missing == frame.read # "" /\ bound[frame.read] = Unbound
        raised == IF missing THEN "NameError" ELSE frame.raises
    IN  [ctx |-> IF raised = "" THEN bound ELSE ctx,
         value |-> IF frame.read # "" /\ ~missing THEN bound[frame.read]
                   ELSE "None",
         raised |-> raised]

\* one run of a compiled body in the dict ctx: the assignment is made in
\* place, the lookup raises NameError on an unbound name
RunBody(frame, ctx) ==
    LET bound == IF frame.bind = NoBind THEN ctx
                 ELSE [ctx EXCEPT ![frame.bind.name] = frame.bind.value]
        missing == frame.read # "" /\ bound[frame.read] = Unbound
    IN  [ctx |-> bound,
         value |-> IF frame.read # "" /\ ~missing THEN bound[frame.read]
                   ELSE "None",
         raised |-> IF missing THEN "NameError" ELSE frame.raises]

\* eval(code_str, global_context), print of a non-None result, and
\* exec(code_str, global_context) after any SyntaxError of the eval
EvalThenExec(frame, ctx) ==
    IF frame.form = "invalid"
    THEN [ctx |-> ctx, value |-> "None", raised |-> "SyntaxError",
          runs |-> 0, printed |-> <<>>]
    ELSE IF frame.form = "stmt"
    THEN LET r == RunBody(frame, ctx)
         IN  [ctx |-> r.ctx, value |-> r.value, raised |-> r.raised,
              runs |-> 1, printed |-> <<>>]
    ELSE LET r == RunBody(frame, ctx)
         IN  IF r.raised = "SyntaxError"
             THEN LET again == RunBody(frame, r.ctx)
                  IN  [ctx |-> again.ctx, value |-> again.value,
                       raised |-> again.raised, runs |-> 2,
                       printed |-> <<>>]
             ELSE [ctx |-> r.ctx, value |-> r.value, raised |-> r.raised,
                   runs |-> 1,
                   printed |-> IF r.raised = "" /\ r.value # "None"
                               THEN <<r.value>> ELSE <<>>]

\* the classes `except Exception` does not catch
BaseOnly == {"KeyboardInterrupt", "SystemExit", "GeneratorExit"}

StateEvent(k, event, error) == [frame |-> k, event |-> event, error |-> error]

\* the state event the handlers around eval/exec send for what was raised
TerminalEvents(k, raised) ==
    IF raised = "" THEN <<StateEvent(k, "exec_end", "")>>
    ELSE IF raised = "KeyboardInterrupt"
    THEN <<StateEvent(k, "interrupted", "")>>
    ELSE IF raised \notin BaseOnly
    THEN <<StateEvent(k, "exception", raised)>>
    ELSE <<>>

\* what leaves the try statement of one frame and so leaves the loop
Propagates(raised) == raised \in BaseOnly \ {"KeyboardInterrupt"}

NoFrame == [utf8 |-> TRUE, form |-> "none", bind |-> NoBind, read |-> "",
            raises |-> "", envelope |-> "none"]

Handled(frame, r) ==
    [frame |-> frame, raised |-> r.raised, value |-> r.value, runs |-> r.runs,
     output |-> <<>>]

\* what one frame prints, in order, each with the target sys.stdout had
\* then: the result of the expression, the interruption notice, the
\* formatted traceback
FrameOutput(r, target) ==
    LET texts == r.printed \o
                 (IF r.raised = "" THEN <<>>
                  ELSE IF r.raised = "KeyboardInterrupt"
                  THEN <<"[Execution Interrupted]">>
                  ELSE IF r.raised \notin BaseOnly THEN <<"Traceback">>
                  ELSE <<>>)
    IN  [i \in 1..Len(texts) |-> [text |-> texts[i], to |-> target]]

StdoutAfterFrameKeepsCapture(original_stdout, current) == current

\* finally: sys.stdout = original_stdout
StdoutAfterFrame(original_stdout, current) == original_stdout

\* main() has reached the loop: READY sent, hooks installed, context made
ExecInit ==
    /\ RingIdle
    /\ PolicyIdle
    /\ inbox \in FrameSeqs
    /\ sock = "open"
    /\ events = <<>>
    /\ global_context = InitialContext
    /\ worker = [pc |-> "read", stdout |-> "original",
                 original_stdout |-> "original", msg |-> NoFrame,
                 cause |-> "", log |-> <<>>]

\* leaving main() through its finally clause
Terminated(cause, log) ==
    [pc |-> "terminated", stdout |-> "original",
     original_stdout |-> "original", msg |-> NoFrame,
     cause |-> cause, log |-> log]

\* one pass of the loop head with a frame on the ring: read, decode, send
\* code_received, put the capture in place of sys.stdout
ReadFrame ==
    /\ worker.pc = "read"
    /\ inbox # <<>>
    /\ inbox' = Tail(inbox)
    /\ LET msg == Head(inbox)
           k == Len(worker.log) + 1
           undecoded == [ctx |-> global_context, value |-> "None",
                         raised |-> "UnicodeDecodeError", runs |-> 0]
           unsent == [undecoded EXCEPT !.raised = "BrokenPipeError"]
       IN  IF ~msg.utf8
           THEN /\ worker' = Terminated("UnicodeDecodeError",
                                 Append(worker.log, Handled(msg, undecoded)))
                /\ sock' = "closed"
                /\ UNCHANGED events
           ELSE IF sock # "open"
           THEN /\ worker' = Terminated("BrokenPipeError",
                                 Append(worker.log, Handled(msg, unsent)))
                /\ sock' = "closed"
                /\ UNCHANGED events
           ELSE /\ events' = Append(events, StateEvent(k, "code_received", ""))
                /\ worker' = [worker EXCEPT !.pc = "exec", !.msg = msg,
                                            !.original_stdout = worker.stdout,
                                            !.stdout = "capture"]
                /\ UNCHANGED sock
    /\ UNCHANGED global_context

\* the try statement of one frame: exec_start, eval or exec, the terminal
\* event, and the finally clause that restores sys.stdout
Execute ==
    /\ worker.pc = "exec"
    /\ LET msg == worker.msg
           k == Len(worker.log) + 1
           unsent == [ctx |-> global_context, value |-> "None",
                      raised |-> "BrokenPipeError", runs |-> 0]
           r == EvalThenExec(msg, global_context)
       IN  IF sock # "open"
           THEN /\ worker' = [Terminated("BrokenPipeError",
                                  Append(worker.log, Handled(msg, unsent)))
                               EXCEPT !.stdout =
                                   StdoutAfterFrame(worker.original_stdout,
                                                    worker.stdout)]
                /\ sock' = "closed"
                /\ UNCHANGED <<events, global_context>>
           ELSE /\ events' = events \o <<StateEvent(k, "exec_start", "")>>
                                    \o TerminalEvents(k, r.raised)
                /\ global_context' = r.ctx
                /\ LET done == [Handled(msg, r) EXCEPT
                                      !.output = FrameOutput(r, worker.stdout)]
                       restored == StdoutAfterFrame(worker.original_stdout,
                                                    worker.stdout)
                   IN  IF Propagates(r.raised)
                       THEN /\ worker' = [Terminated(r.raised,
                                                     Append(worker.log, done))
                                          EXCEPT !.stdout = restored]
                            /\ sock' = "closed"
                       ELSE /\ worker' = [worker EXCEPT
                                             !.pc = "read", !.msg = NoFrame,
                                             !.stdout = restored,
                                             !.log = Append(worker.log, done)]
                            /\ UNCHANGED sock
    /\ UNCHANGED inbox

\* the host end of the control stream goes away: every later sendall fails
ControlStreamLost ==
    /\ worker.pc \in {"read", "exec"}
    /\ sock = "open"
    /\ sock' = "broken"
    /\ UNCHANGED <<inbox, events, global_context, worker>>

ExecNext ==
    \/ ReadFrame /\ UNCHANGED <<ringVars, policyVars>>
    \/ Execute /\ UNCHANGED <<ringVars, policyVars>>
    \/ ControlStreamLost /\ UNCHANGED <<ringVars, policyVars>>

ExecSpec == ExecInit /\ [][ExecNext]_vars

-----------------------------------------------------------------------------
(* ShmOut.write: the capture sink of the standard output                   *)
(*                                                                         *)
(* The ring is ring B, written by the worker and read by the host; the     *)
(* control stream carries one DATA token per enqueued frame.  A Python str *)
(* is a sequence of code points here, because the sink counts bytes of the *)
(* UTF-8 encoding and the ring stores them.                                *)

MaxText == 2
OutCap == 8

\* 'A', e-acute, a lone surrogate
CodePoints == {65, 233, 55296}

Texts == UNION {[1..n -> CodePoints] : n \in 0..MaxText}

Surrogate(cp) == cp >= 55296 /\ cp <= 57343

\* the UTF-8 bytes of one code point of the basic plane
Utf8Char(cp) ==
    IF cp < 128 THEN <<cp>>
    ELSE IF cp < 2048 THEN <<192 + (cp \div 64), 128 + (cp % 64)>>
    ELSE <<224 + (cp \div 4096), 128 + ((cp \div 64) % 64), 128 + (cp % 64)>>

RECURSIVE Utf8Encode(_)
\* text.encode("utf-8")
Utf8Encode(text) ==
    IF text = <<>> THEN <<>>
    ELSE Utf8Char(Head(text)) \o Utf8Encode(Tail(text))

\* encode() raises UnicodeEncodeError on a surrogate
Encodable(text) == \A i \in 1..Len(text) : ~Surrogate(text[i])

SendsDataAlways(n) == TRUE

\* if n > 0: the branch that advances total_written and sends DATA
SendsData(n) == n > 0

\* sock.sendall(b"DATA\n") under `except BrokenPipeError: break`
SendAll(stream) ==
    IF stream = "open" THEN [sent |-> "DATA", break |-> FALSE]
    ELSE [sent |-> "BrokenPipeError", break |-> TRUE]

OutStart == [pc |-> "idle", text |-> <<>>, data |-> <<>>, total_written |-> 0,
             ret |-> 0, raised |-> "", enqueued |-> <<>>, trace |-> <<>>,
             slept |-> FALSE]

outRest == <<policyVars, prod, cons, inbox, events, global_context, worker>>

OutInit ==
    /\ cap = OutCap
    /\ head = 0
    /\ tail = 0
    /\ buf = [i \in 0..(cap - 1) |-> 0]
    /\ pending = <<>>
    /\ acked = <<>>
    /\ rop = NoRingOp
    /\ prod = [pc |-> "none"]
    /\ cons = [pc |-> "none"]
    /\ out = OutStart
    /\ PolicyIdle
    /\ inbox = <<>> /\ sock = "open" /\ events = <<>>
    /\ global_context = <<>> /\ worker = [pc |-> "none"]

\* write(text) up to the loop: the empty-text return, the encoding
ShmOutCall(text) ==
    /\ out.pc \in {"idle", "returned", "raised"}
    /\ out' = IF text = <<>>
              THEN [OutStart EXCEPT !.pc = "returned"]
              ELSE IF ~Encodable(text)
              THEN [OutStart EXCEPT !.pc = "raised", !.text = text,
                                    !.raised = "UnicodeEncodeError"]
              ELSE [OutStart EXCEPT !.pc = "loop", !.text = text,
                                    !.data = Utf8Encode(text)]
    /\ UNCHANGED <<head, tail, cap, buf, pending, acked, rop, sock>>

\* one iteration of the loop of write(text), and the return once the loop is
\* left; an iteration whose rb.write returned 0 sleeps and leaves the call
\* where it was
ShmOutIterate ==
    /\ out.pc = "loop"
    /\ LET chunk == SubSeq(out.data, out.total_written + 1, Len(out.data))
           r == WriteResult(head, tail, cap, buf, chunk)
           n == r.ret
           queued == IF r.wrote THEN <<"frame">> ELSE <<>>
       IN  /\ Write(chunk)
           /\ IF SendsData(n)
              THEN LET total == out.total_written + n
                       s == SendAll(sock)
                       done == s.break \/ ~(total < Len(out.data))
                   IN  out' = [out EXCEPT
                                 !.total_written = total,
                                 !.enqueued = IF r.wrote THEN @ \o chunk ELSE @,
                                 !.trace = @ \o queued \o <<s.sent>>,
                                 !.pc = IF done THEN "returned" ELSE "loop",
                                 !.ret = IF done THEN total ELSE 0]
              ELSE out' = [out EXCEPT
                             !.enqueued = IF r.wrote THEN @ \o chunk ELSE @,
                             !.trace = @ \o queued,
                             !.slept = TRUE]
    /\ UNCHANGED sock

\* the host takes one frame off ring B
HostRead ==
    /\ head # tail
    /\ Read
    /\ UNCHANGED <<out, sock>>

\* the host end of the control stream goes away
ControlStreamBreaks ==
    /\ sock = "open"
    /\ sock' = "broken"
    /\ UNCHANGED <<head, tail, cap, buf, pending, acked, rop, out>>

OutNext ==
    \/ \E text \in Texts : ShmOutCall(text) /\ UNCHANGED outRest
    \/ ShmOutIterate /\ UNCHANGED outRest
    \/ HostRead /\ UNCHANGED outRest
    \/ ControlStreamBreaks /\ UNCHANGED outRest

\* the worker keeps running its loop and the host keeps consuming ring B
OutSpec ==
    /\ OutInit
    /\ [][OutNext]_vars
    /\ WF_vars(ShmOutIterate /\ UNCHANGED outRest)
    /\ WF_vars(HostRead /\ UNCHANGED outRest)

-----------------------------------------------------------------------------
(* Ring buffer properties                                                  *)

\* C1 (as claimed): the k-th read() that returns a payload returns the bytes
\* of the k-th write() that returned non-zero.
C1_ReadMatchesNonZeroWrite ==
    (rop.op = "read" /\ rop.some) =>
        (rop.nonzero > 0 /\ rop.payload = rop.ackedHead)

\* C1 (amended): the k-th read() that returns a payload returns exactly the
\* bytes of the k-th write() that enqueued a frame (the writes that did not
\* take the early return), whole and in FIFO order, wrapped or not.
C1_ReadMatchesEnqueuedWrite ==
    (rop.op = "read" /\ rop.some) =>
        (rop.queued > 0 /\ rop.payload = rop.expected)

\* a read returned the older of several queued frames, and that frame's
\* length prefix straddled the capacity boundary
C1_Witness ==
    /\ rop.op = "read" /\ rop.some
    /\ rop.queued >= 2
    /\ Len(rop.payload) >= 1
    /\ rop.at + 4 > cap

\* C2: a write(b) called when 4 + len(b) > free returns 0 and leaves head,
\* tail, capacity and every byte of the data area as they were.
C2_RejectedWriteChangesNothing ==
    [][ (rop'.op = "write"
            /\ 4 + Len(rop'.data) > cap - UsedBytes(head, tail, cap) - 1)
        => (rop'.ret = 0 /\ head' = head /\ tail' = tail /\ cap' = cap
            /\ buf' = buf) ]_vars

\* a payload that an empty ring would take was refused by a ring holding frames
C2_Witness ==
    /\ rop.op = "write" /\ rop.ret = 0
    /\ Len(rop.data) >= 1
    /\ Len(rop.data) <= cap - 5
    /\ rop.free < 4 + Len(rop.data)
    /\ rop.queued >= 1

\* C3: used + free = C - 1 in every reachable state, where used is the sum of
\* 4 + len over the frames written and not yet read, and free is never
\* negative.
C3_UsedPlusFree ==
    LET used == (tail - head + cap) % cap
        free == cap - used - 1
    IN  /\ used + free = cap - 1
        /\ used = FrameBytes(pending)
        /\ free >= 0

\* several frames are queued and the used region wraps
C3_Witness == Len(pending) >= 2 /\ tail < head

\* C4: head and tail stay in [0, C), and head = tail exactly when no written
\* frame is still unread.
C4_CursorsInRange ==
    /\ head \in 0..(cap - 1)
    /\ tail \in 0..(cap - 1)
    /\ (head = tail) <=> (pending = <<>>)

\* the ring drained to empty at a cursor other than the initial one
C4_Witness ==
    /\ rop.op = "read" /\ rop.some
    /\ head = tail /\ head # 0

-----------------------------------------------------------------------------
(* Policy evaluator properties                                             *)

\* the section a guarded operation is evaluated against
SectionOf(op) ==
    IF op \in {"open", "listdir"} THEN "fs"
    ELSE IF op = "run" THEN "exec" ELSE "net"

\* the call went through the evaluator with a ruleset loaded
Evaluated == call.op # "none" /\ call.evaluated

MatchedActions == {call.hits[k].action : k \in 1..Len(call.hits)}
MatchedRules == {call.hits[k].src : k \in 1..Len(call.hits)}
SectionDefault == policy.doc.defaults[SectionOf(call.op)]

\* C5: deny dominates: in every section, if at least one matching rule has
\* action deny the verdict is deny, whatever the other matching rules, their
\* order and the section default.
C5_DenyDominates ==
    (Evaluated /\ "deny" \in MatchedActions) => call.verdict = "deny"

\* an exec probe matched an allow or warn rule first and a deny rule after it,
\* under a default of allow
C5_Witness ==
    /\ Evaluated /\ call.op = "run"
    /\ Len(call.hits) >= 2
    /\ call.hits[1].action \in {"allow", "warn"}
    /\ call.hits[2].action = "deny"
    /\ SectionDefault = "allow"

\* C6: warn dominates allow: if the matching rules' actions are within
\* {allow, warn} and include warn, the verdict is warn, whatever the order and
\* the section default.
C6_WarnDominatesAllow ==
    (Evaluated /\ MatchedActions \subseteq {"allow", "warn"}
               /\ "warn" \in MatchedActions)
        => call.verdict = "warn"

\* a file probe matched an allow rule first and a warn rule after it, under a
\* default of deny
C6_Witness ==
    /\ Evaluated /\ call.op \in {"open", "listdir"}
    /\ Len(call.hits) >= 2
    /\ call.hits[1].action = "allow"
    /\ call.hits[2].action = "warn"
    /\ SectionDefault = "deny"

\* C7: with no matching rule the verdict is defaults[section] when present
\* and allow when absent; with a matching rule the verdict is one of the
\* matching rules' actions and the default plays no part.
C7_DefaultOnlyWhenNoMatch ==
    Evaluated =>
        /\ (call.hits = <<>>) =>
               call.verdict = (IF SectionDefault = Absent THEN "allow"
                               ELSE SectionDefault)
        /\ (call.hits # <<>>) => call.verdict \in MatchedActions

\* a connect matched none of the net rules present and got the default deny
C7_Witness ==
    /\ Evaluated /\ call.op = "connect"
    /\ policy.doc.net # <<>>
    /\ call.hits = <<>>
    /\ SectionDefault = "deny"
    /\ call.verdict = "deny"

\* p is a prefix of s
IsPrefix(p, s) == Len(p) <= Len(s) /\ \A i \in 1..Len(p) : s[i] = p[i]

\* every hit carries the action of the rule it names
HitsCarryRuleActions(rules) ==
    \A k \in 1..Len(call.hits) :
        /\ call.hits[k].src \in 1..Len(rules)
        /\ call.hits[k].action = ActionOf(rules[call.hits[k].src])

\* C8 (as claimed): an FS rule contributes its action if and only if the probe
\* path starts with rule.path and the probe permission is in rule.perms.
C8_FsRuleMatchesIffPrefixAndPerm ==
    (Evaluated /\ call.op \in {"open", "listdir"}) =>
        /\ HitsCarryRuleActions(policy.doc.fs)
        /\ \A i \in 1..Len(policy.doc.fs) :
               (i \in MatchedRules) <=>
                   /\ IsPrefix(policy.doc.fs[i].path, call.target)
                   /\ call.perm \in Range(policy.doc.fs[i].perms)

\* C8 (amended): an FS rule contributes its action if and only if rule.path is
\* present and not empty, the probe path starts with it, and the probe
\* permission is in rule.perms.
C8_FsRuleMatchesIffNonEmptyPrefixAndPerm ==
    (Evaluated /\ call.op \in {"open", "listdir"}) =>
        /\ HitsCarryRuleActions(policy.doc.fs)
        /\ \A i \in 1..Len(policy.doc.fs) :
               (i \in MatchedRules) <=>
                   /\ policy.doc.fs[i].path # PyNone
                   /\ policy.doc.fs[i].path # <<>>
                   /\ IsPrefix(policy.doc.fs[i].path, call.target)
                   /\ call.perm \in Range(policy.doc.fs[i].perms)

\* open("/a") for reading: a rule on "/" contributed and a rule on "/b" that
\* lists read_file did not
C8_Witness ==
    /\ Evaluated /\ call.op = "open"
    /\ call.target = <<"/", "a">> /\ call.perm = "read_file"
    /\ \E i, j \in 1..Len(policy.doc.fs) :
           /\ policy.doc.fs[i].path = <<"/">> /\ i \in MatchedRules
           /\ policy.doc.fs[j].path = <<"/", "b">> /\ j \notin MatchedRules

\* bit j (1 = most significant, 32 = least) of a dotted quad
AddressBit(octets, j) ==
    (octets[((j - 1) \div 8) + 1] \div 2 ^ (7 - ((j - 1) % 8))) % 2

\* the address lies in the cidr: both parse and agree on the prefix bits
AddressInCidr(ip, cidr) ==
    /\ cidr # PyNone
    /\ ParseIPv4(ip).ok
    /\ IpNetwork(cidr).ok
    /\ \A j \in 1..IpNetwork(cidr).prefixlen :
           AddressBit(ParseIPv4(ip).octets, j)
               = AddressBit(ParseIPv4(SplitOn(cidr, "/")[1]).octets, j)

\* the port equals an integer element or lies inside a lo-hi element
PortInSpec(ports, port) ==
    \E k \in 1..Len(SplitOn(ports, ",")) :
        LET t == Strip(SplitOn(ports, ",")[k])
            se == SplitOn(t, "-")
        IN  \/ ParseInt(t) = port
            \/ /\ Len(se) = 2
               /\ ParseInt(se[1]) # ValueError /\ ParseInt(se[2]) # ValueError
               /\ ParseInt(se[1]) <= port /\ port <= ParseInt(se[2])

\* the worked examples of C9, on both the raw and the precompiled port test
C9_Examples ==
    /\ \A port \in {80, 443, 8050} :
           PortMatches(PortsWeb, port)
           /\ PortMatchesRanges(ParsePortRanges(PortsWeb), port)
    /\ ~PortMatches(PortsWeb, 81)
    /\ ~PortMatchesRanges(ParsePortRanges(PortsWeb), 81)
    /\ InNetwork(IpAddress(Host10).octets, IpNetwork(Cidr10Slash8))
    /\ ~InNetwork(IpAddress(Host10).octets, IpNetwork(Cidr10Dot1Slash16))

\* C9: a NET rule contributes its action if and only if the probe protocol
\* equals rule.proto, the probe address lies in rule.cidr and the probe port
\* equals an integer element or lies in a lo-hi element of rule.ports,
\* malformed elements being skipped; "80,443,8000-8100" matches 80, 443, 8050
\* and not 81; 10.0.0.5 is in 10.0.0.0/8 and not in 10.1.0.0/16.
C9_NetRuleMatches ==
    /\ C9_Examples
    /\ (Evaluated /\ call.op = "connect") =>
        /\ HitsCarryRuleActions(policy.doc.net)
        /\ \A i \in 1..Len(policy.doc.net) :
               (i \in MatchedRules) <=>
                   /\ policy.doc.net[i].proto = "tcp"
                   /\ AddressInCidr(call.target, policy.doc.net[i].cidr)
                   /\ PortInSpec(policy.doc.net[i].ports, call.port)

\* a connect to 10.0.0.5:80 matched the rule whose ports value starts with a
\* malformed element, and did not match a rule on 10.1.0.0/16
C9_Witness ==
    /\ Evaluated /\ call.op = "connect"
    /\ call.target = Host10 /\ call.port = 80
    /\ \E i, j \in 1..Len(policy.doc.net) :
           /\ policy.doc.net[i].ports = PortsBadThen80 /\ i \in MatchedRules
           /\ policy.doc.net[j].cidr = Cidr10Dot1Slash16 /\ j \notin MatchedRules

\* C10: whenever a guarded open, listdir, run or connect is resolved to deny,
\* the call raises PermissionError and the original operation is not invoked.
C10_DeniedCallRaisesAndSkipsOriginal ==
    (call.op # "none" /\ call.verdict = "deny") =>
        /\ call.raised = "PermissionError"
        /\ ~call.invoked
        /\ call.original = ""

\* a subprocess launch was denied by a matching exec rule
C10_Witness ==
    /\ call.op = "run" /\ call.verdict = "deny"
    /\ "deny" \in MatchedActions
    /\ call.raised = "PermissionError"

-----------------------------------------------------------------------------
(* Properties of the executor loop                                         *)

\* the control stream failed under the worker
TransportLost == sock = "broken" \/ worker.cause = "BrokenPipeError"

\* the names of the state events sent for the k-th frame, in order
EventsOf(k) ==
    LET sent == SelectSeq(events, LAMBDA e : e.frame = k)
    IN  [i \in 1..Len(sent) |-> sent[i].event]

\* the events the k-th frame is due, given how its evaluation ended
ExpectedEvents(raised) ==
    <<"code_received", "exec_start",
      IF raised = "" THEN "exec_end"
      ELSE IF raised = "KeyboardInterrupt" THEN "interrupted"
      ELSE "exception">>

\* C14: with the control stream up, every frame taken from ring A gets
\* code_received, exec_start and then exactly one terminal event - exec_end
\* after a normal end, interrupted after an interrupt, exception after any
\* other failure - and the events of two frames never interleave
C14_EventsPerFrame ==
    ~TransportLost =>
        /\ \A k \in 1..Len(worker.log) :
               EventsOf(k) = ExpectedEvents(worker.log[k].raised)
        /\ worker.pc = "exec" =>
               EventsOf(Len(worker.log) + 1) = <<"code_received">>
        /\ \A i, j \in 1..Len(events) :
               i < j => events[i].frame <= events[j].frame

\* C15: the worker leaves its loop only when the transport has failed,
\* whatever the bytes of a frame and whatever its evaluation raises
C15_OnlyTransportLossEndsWorker ==
    worker.pc = "terminated" => TransportLost

\* the value the claim makes visible to the k-th frame under name n: that of
\* the latest assignment to n among the frames up to k, else the initial one
VisibleValue(k, n) ==
    LET binders == {i \in 1..k : /\ worker.log[i].frame.form # "invalid"
                                 /\ worker.log[i].frame.bind.name = n}
        last == CHOOSE i \in binders : \A j \in binders : j <= i
    IN  IF binders # {} THEN worker.log[last].frame.bind.value
        ELSE IF n = "__name__" THEN "__main__" ELSE Unbound

\* C16: a frame that looks a name up gets the value of the latest
\* assignment any earlier frame made to it, also when that frame then failed
\* or was interrupted, and NameError when there was none; __name__ is
\* "__main__" throughout
C16_PersistentContext ==
    /\ global_context["__name__"] = "__main__"
    /\ \A k \in 1..Len(worker.log) :
           LET e == worker.log[k]
               v == VisibleValue(k, e.frame.read)
           IN  (e.runs > 0 /\ e.frame.read # "") =>
                   IF v = Unbound THEN e.raised = "NameError"
                   ELSE e.value = v /\ e.raised = ""

\* x was assigned by a frame that then raised, y by a frame that was then
\* interrupted, and a later frame read the value back
C16_Witness ==
    \E i, j \in 1..Len(worker.log) :
        /\ i < j
        /\ worker.log[i].frame.bind # NoBind
        /\ worker.log[i].raised \in {"ValueError", "KeyboardInterrupt"}
        /\ worker.log[j].frame.read = worker.log[i].frame.bind.name
        /\ worker.log[j].value = worker.log[i].frame.bind.value
        /\ EventsOf(j) = <<"code_received", "exec_start", "exec_end">>

\* C21: a frame whose envelope type is not CODE is dropped by the loop: its
\* body is not run and no state event is sent for it
C21_NonCodeFrameDiscarded ==
    /\ \A k \in 1..Len(worker.log) :
           worker.log[k].frame.envelope \notin {"none", "CODE"} =>
               worker.log[k].runs = 0 /\ EventsOf(k) = <<>>
    /\ worker.msg.envelope \notin {"none", "CODE"} =>
           EventsOf(Len(worker.log) + 1) = <<>>

-----------------------------------------------------------------------------
(* Properties of the guarded operations                                    *)

\* C11: a guarded call whose verdict is warn prints an audit line naming the
\* target (and the port of a connection) first, then calls the original
\* operation, and raises nothing
C11_WarnAuditsThenProceeds ==
    (call.op # "none" /\ call.verdict = "warn") =>
        /\ call.steps = <<"print", "call">>
        /\ call.invoked /\ call.original # "" /\ call.raised = ""
        /\ call.audit # NoAudit
        /\ call.audit.target = call.target
        /\ call.audit.port = call.port

\* a connection matched a warn rule and went through after its audit line
C11_Witness ==
    /\ call.op = "connect" /\ call.verdict = "warn"
    /\ "warn" \in MatchedActions
    /\ call.audit.kind = "net tcp" /\ call.audit.port = call.port
    /\ call.original = "original_create_connection"

\* C12: an open whose absolute path is that of the policy document goes
\* straight to the original open: the policy is neither loaded nor
\* evaluated, nothing is raised or audited, whatever the FS rules say
C12_PolicyDocumentOpenBypasses ==
    (call.op = "open" /\ Abspath(call.target) = Abspath(POLICY_PATH)) =>
        /\ call.exempt /\ ~call.loaded /\ ~call.evaluated
        /\ call.hits = <<>> /\ call.verdict = ""
        /\ call.invoked /\ call.original = "ORIGINAL_OPEN"
        /\ call.raised = "" /\ call.audit = NoAudit

\* the policy document was opened for reading under its absolute name while
\* the ruleset denies that very path
C12_Witness ==
    /\ call.op = "open" /\ call.target = PolicyDocAbsolute
    /\ call.mode = <<"r">> /\ call.exempt /\ call.invoked
    /\ policy.state = "ok"
    /\ MatchFsAction(LoadActivePolicy(policy, precompile), call.target,
                     "read_file").verdict = "deny"

\* C13: an evaluated open carries write_file exactly when its mode holds one
\* of w, a, +, x, and read_file otherwise, the omitted mode included
C13_WritePermIffWriteFlag ==
    (call.op = "open" /\ ~call.exempt) =>
        /\ call.perm = "write_file" <=>
               \E i \in 1..Len(call.mode) : call.mode[i] \in {"w", "a", "+", "x"}
        /\ call.perm \in {"write_file", "read_file"}
        /\ probe.mode = PyNone => call.perm = "read_file"

\* an open in mode "r+" was evaluated as a write
C13_Witness ==
    /\ call.op = "open" /\ call.mode = <<"r", "+">>
    /\ call.loaded /\ call.perm = "write_file"

\* the verdict the made call gets with POLICY_PRECOMPILE set the other way
VerdictUnderOtherSetting ==
    LET pol == LoadActivePolicy(policy, ~precompile)
    IN  CASE call.op \in {"open", "listdir"} ->
                 MatchFsAction(pol, call.target, call.perm).verdict
          [] call.op = "connect" ->
                 MatchNetAction(pol, call.target, call.port, "tcp").verdict
          [] call.op = "run" -> MatchExecAction(pol, call.target).verdict
          [] OTHER -> ""

\* C17: every evaluated fs, net or exec probe gets the same verdict on the
\* _compiled structures as on the raw rule lists
C17_PrecompileAgrees ==
    call.loaded => call.verdict = VerdictUnderOtherSetting

\* text occurs in line
Mentions(line, text) ==
    \E k \in 0..(Len(line) - Len(text)) :
        SubSeq(line, k + 1, k + Len(text)) = text

\* words that name the kind of a guarded operation
KindWords(op) ==
    CASE op = "open" -> {<<"o", "p", "e", "n">>, <<"f", "s">>,
                         <<"f", "i", "l", "e">>}
      [] op = "listdir" -> {<<"l", "i", "s", "t">>, <<"f", "s">>,
                            <<"d", "i", "r">>}
      [] op = "run" -> {<<"e", "x", "e", "c">>, <<"r", "u", "n">>}
      [] op = "connect" -> {<<"c", "o", "n", "n", "e", "c", "t">>,
                            <<"n", "e", "t">>, <<"t", "c", "p">>}
      [] OTHER -> {}

\* C18: the PermissionError of a denied call names the kind of operation
\* and the path or host that was refused
C18_DenialNamesOperationAndTarget ==
    call.raised = "PermissionError" =>
        /\ \E w \in KindWords(call.op) : Mentions(call.message, w)
        /\ Mentions(call.message, call.target)

\* an evaluated open in a read mode, or a directory listing
ReadLike ==
    \/ call.op = "listdir"
    \/ call.op = "open" /\ call.perm = "read_file"

\* C19 as stated: a read-mode open or a listing is always performed and
\* never raises the permission-denied failure
C19_ReadsNeverDenied ==
    ReadLike => call.invoked /\ call.raised = ""

\* C19: a read-mode open or a listing fails with PermissionError, the
\* original not called, exactly when its verdict is deny; under allow and
\* warn the original is called and nothing is raised
C19_ReadsFailExactlyOnDeny ==
    ReadLike =>
        /\ call.verdict \in {"allow", "warn", "deny"}
        /\ (call.raised = "PermissionError" /\ ~call.invoked)
               <=> call.verdict = "deny"
        /\ (call.raised = "" /\ call.invoked /\ call.steps[Len(call.steps)] = "call")
               <=> call.verdict \in {"allow", "warn"}

\* a read-mode open and a listing each met a deny rule and were refused
C19_Witness ==
    /\ ReadLike /\ call.verdict = "deny"
    /\ "deny" \in MatchedActions
    /\ call.raised = "PermissionError" /\ ~call.invoked

C31_HostnameMatchesNoNetRule ==
    (call.op = "connect" /\ ~ParseIPv4(call.target).ok) =>
        LET pol == LoadActivePolicy(policy, precompile)
        IN  /\ call.hits = <<>>
            /\ call.verdict = IF pol.ok THEN Fallback(pol.doc, "net")
                              ELSE "allow"
            /\ call.verdict = VerdictUnderOtherSetting

\* a connect to the name "db" on port 80 went through, with precompilation
\* on, under a ruleset whose net rules deny port 80 of 10.0.0.0/8
C31_Witness ==
    /\ call.op = "connect" /\ call.target = HostName /\ call.port = 80
    /\ precompile /\ policy.state = "ok"
    /\ \E i \in 1..Len(policy.doc.net) :
          /\ policy.doc.net[i].cidr = Cidr10Slash8
          /\ policy.doc.net[i].action = "deny"
          /\ policy.doc.net[i].proto = "tcp"
    /\ call.evaluated /\ call.invoked /\ call.verdict = "allow"

\* C32: an open of the policy document is handed to the original open with
\* the mode it was called with, whatever that mode is: no permission is
\* derived from the mode, the ruleset is neither loaded nor evaluated, and
\* nothing is raised or audited, also where the FS rules deny write_file on
\* that path.
C32_SelfExemptionInAnyMode ==
    (call.op = "open" /\ Abspath(call.target) = Abspath(POLICY_PATH)) =>
        /\ call.mode = ModeArgument(probe.mode)
        /\ call = [NoCall EXCEPT !.op = "open", !.target = probe.target,
                                 !.mode = call.mode, !.exempt = TRUE,
                                 !.invoked = TRUE,
                                 !.original = "ORIGINAL_OPEN",
                                 !.steps = <<"call">>]

\* the policy document was opened for appending while the ruleset denies
\* write_file on its path
C32_Witness ==
    /\ call.op = "open" /\ call.target = PolicyDocAbsolute
    /\ call.mode = <<"a">> /\ ModeToPerm(call.mode) = "write_file"
    /\ call.exempt /\ call.invoked /\ ~call.loaded
    /\ policy.state = "ok"
    /\ MatchFsAction(LoadActivePolicy(policy, precompile), call.target,
                     "write_file").verdict = "deny"

Whitespace == {" ", "\t", "\n", "\r"}

RECURSIVE DropWhitespace(_)
DropWhitespace(s) ==
    IF s # <<>> /\ Head(s) \in Whitespace THEN DropWhitespace(Tail(s)) ELSE s

RECURSIVE UpToWhitespace(_)
UpToWhitespace(s) ==
    IF s = <<>> \/ Head(s) \in Whitespace THEN <<>>
    ELSE <<Head(s)>> \o UpToWhitespace(Tail(s))

\* the first whitespace-separated token of a string, empty when it has none
FirstToken(s) == UpToWhitespace(DropWhitespace(s))

\* C29: the value a guarded launch probes is the first element of a command
\* given as a sequence and the first whitespace-separated token of a command
\* given as a string, and the exec rules taken are exactly those whose path
\* equals that value.
C29_ExecProbePath ==
    call.op = "run" =>
        LET cmd == probe.cmd
            expected == IF cmd.kind = "seq" THEN cmd.argv[1]
                        ELSE FirstToken(cmd.text)
            pol == LoadActivePolicy(policy, precompile)
        IN  /\ call.target = expected
            /\ pol.ok =>
                  {call.hits[i].src : i \in 1..Len(call.hits)} =
                      {i \in 1..Len(pol.doc.exec) :
                           pol.doc.exec[i].path = expected}

-----------------------------------------------------------------------------
(* Properties of the ring calls on any header                              *)

\* C22: whatever the header holds and whatever the argument, write and read
\* return a value and raise nothing
C22_RingCallsNeverRaise ==
    rop.op # "none" => rop.raised = ""

\* the offsets of the data area outside the used span from head to tail
FreeRegion(h, t, c) ==
    {i \in 0..(c - 1) : (i - h + c) % c >= UsedBytes(h, t, c)}

\* C24: a write call leaves head and capacity alone and stores only at free
\* offsets; a read call leaves tail, capacity and the data area alone, and
\* leaves head alone too when it returns None
C24_CallEffects ==
    [][/\ rop'.op = "write" =>
             /\ head' = head /\ cap' = cap
             /\ \A i \in DOMAIN buf :
                    buf'[i] # buf[i] => i \in FreeRegion(head, tail, cap)
       /\ rop'.op = "read" =>
             /\ tail' = tail /\ cap' = cap /\ buf' = buf
             /\ ~rop'.some => head' = head]_vars

\* a read found a length prefix that promises more bytes than the ring
\* holds, and returned None
C24_Witness ==
    /\ rop.op = "read" /\ ~rop.some /\ rop.raised = ""
    /\ cap > 0 /\ head = rop.at
    /\ UsedBytes(head, tail, cap) >= 4
    /\ UsedBytes(head, tail, cap) < 4 + UnpackU32(ReadRaw(buf, 4, head, cap))

-----------------------------------------------------------------------------
(* Properties of the concurrent ring                                       *)

\* the bytes of the frame for data lie at the offsets from t on
FrameInPlace(b, t, c, data) ==
    LET bytes == PackU32(Len(data)) \o data
    IN  \A j \in 0..(Len(bytes) - 1) : b[RawOffset(j, t, c)] = bytes[j + 1]

\* C23: with write() and read() interleaved access by access, (1) tail is
\* stored only when the prefix and the payload of the frame are in the data
\* area, (2) head is stored only when the whole payload has been copied
\* out, (3) every byte store of write() hits an offset outside the span
\* from head to tail, and (4) a read() that returns a payload returns the
\* oldest payload written and not yet read
C23_PublishAfterData ==
    [][/\ tail' # tail => FrameInPlace(buf, tail, cap, prod.data)
       /\ head' # head =>
             /\ Len(cons.payload) = cons.msg_len
             /\ pending # <<>> /\ cons.payload = Head(pending)
       /\ (prod.pc = "run" /\ prod' # prod /\ tail' = tail) =>
             prod'.at \in FreeRegion(head, tail, cap)
       /\ (cons.pc = "run" /\ cons'.pc = "idle" /\ cons'.some) =>
             cons'.queued > 0 /\ cons'.payload = cons'.expected]_vars

\* the consumer is copying the payload of one frame out while the producer
\* is storing the bytes of the next, which wraps past the end of the area
C23_Witness ==
    /\ cons.pc = "run" /\ ReadOrder[cons.k] = "payload"
    /\ prod.pc = "run" /\ WriteOrder[prod.k] = "data"
    /\ pending # <<>>
    /\ prod.t + 4 + Len(prod.data) > cap

C30_BodyRunsAtMostOnce ==
    \A k \in 1..Len(worker.log) : worker.log[k].runs <= 1

-----------------------------------------------------------------------------
(* Properties of the policy cache                                          *)

\* C28: with the cache on, a load returns the memoized ruleset only when the
\* document's mtime is the mtime of the contents that ruleset was parsed
\* from, and a load that began after the last modification of the document
\* returns what an uncached load of the current document returns.
C28_CacheNeverStale ==
    load.pc = "done" /\ load.cache_enabled =>
        /\ load.hit => POLICY_CACHE.parsed_at = load.started
        /\ policy.mtime = load.started =>
              load.result = LoadActivePolicy(policy, precompile)

-----------------------------------------------------------------------------
(* Properties of the capture sink                                          *)

\* C25: with the host consuming ring B, a write(text) of a non-empty text
\* that entered its loop returns; and when it has returned, the bytes it
\* enqueued are the UTF-8 encoding of the text and the returned count is
\* their number.
C25_WriteCompletes ==
    /\ (out.pc = "loop") ~> (out.pc = "returned")
    /\ [](out.pc = "returned" /\ out.text # <<>> =>
             /\ out.enqueued = Utf8Encode(out.text)
             /\ out.ret = Len(Utf8Encode(out.text)))

\* C26: in the record of a write(text) call every enqueued frame is followed
\* at once by one send of DATA, no send happens without a frame enqueued just
\* before it (a ring write that returned 0 sends nothing), and a send on a
\* broken control stream leaves the call without an exception.
C26_DataFollowsEnqueue ==
    /\ \A i \in 1..Len(out.trace) :
          IF out.trace[i] = "frame"
          THEN /\ i < Len(out.trace)
               /\ out.trace[i + 1] \in {"DATA", "BrokenPipeError"}
          ELSE i > 1 /\ out.trace[i - 1] = "frame"
    /\ out.raised # "BrokenPipeError"
    /\ Len(out.trace) > 0 /\ out.trace[Len(out.trace)] = "BrokenPipeError" =>
          out.pc = "returned" /\ out.ret = out.total_written

C26_Witness ==
    /\ out.pc = "returned"
    /\ out.slept
    /\ out.trace = <<"frame", "BrokenPipeError">>

====
